---- MODULE Spec2Model ----
(***************************************************************************)
(* A state-machine model of the zvol layer of ZoF:                         *)
(*   module/zfs/zvol.c                 (platform independent part)         *)
(*   module/os/freebsd/zfs/zvol_os.c   (FreeBSD front end)                 *)
(*                                                                         *)
(* Part I models one open volume and the asynchronous bio pipeline         *)
(* (zvol_strategy_impl .. zvol_strategy_done): admission control, the      *)
(* deferred queue, the range lock, the issue step and completion.          *)
(* Every I/O context is a process whose position is zds[c].pc; a step of   *)
(* the model is one lock-protected section or one call into the DMU/ZIL.   *)
(*                                                                         *)
(* Part II adds the synchronous operations on the same volume (character   *)
(* device read and write, the delete and flush ioctls, the ZIL's get-data  *)
(* callback) and zvol_suspend / zvol_resume.                               *)
(*                                                                         *)
(* Part III models the registry: the hash table of volumes, lookup by name *)
(* (zvol_find_by_name_hash) with its callers' lock releases, and rename    *)
(* (zvol_rename_minors_impl / zvol_rename_minor).  Names are strings of    *)
(* ByteBits-bit characters and zvol_name_hash is the CRC of the source     *)
(* computed at HashBits bits.                                              *)
(*                                                                         *)
(* Part IV models the life of a volume in the registry: open and close     *)
(* through the GEOM provider and through the character device              *)
(* (zvol_first_open / zvol_last_close), zvol_suspend / zvol_resume on a    *)
(* volume found by name, zvol_set_volsize, minor creation, and removal     *)
(* (zvol_remove_minors_impl, zvol_clear_private, zvol_free).               *)
(***************************************************************************)
EXTENDS Integers, Sequences, FiniteSets, TLC

\* ------------------------------------------------------------------ bounds
MaxCtx == 3          \* bios submitted in a run with mixed reads and writes
MaxCpus == 2         \* boot_ncpus ranges over 1..MaxCpus in such a run
VolSize == 2         \* zv_volsize, in blocks

QuiesceCtx == 2      \* bios submitted in a run with synchronous operations
QuiesceCpus == 1     \* boot_ncpus in a run with a suspend
MaxThr == 2          \* synchronous operations entered in a run
MaxVols == 2         \* volumes in the registry
MaxFinders == 2      \* threads looking a volume up by name
HashBits == 4        \* width of zvol_name_hash (64 in the source)
ByteBits == 2        \* width of a character of a name (8 in the source)
MAXNAMELEN == 3      \* size of zv_name, the terminating NUL included
ZVOL_HT_SIZE == 2    \* number of hash buckets
MaxUsers == 2        \* threads opening and closing the devices of the volumes
MaxCount == 2        \* references one GEOM access request takes or drops
MaxOpens == 2        \* references asked for on one volume
MaxActive == 3       \* threads inside a call on the registry at a time
LifeVols == 1        \* volumes allocated at a time in a run of opens and closes
OffBits == 3         \* width of an offset or a length (64 in the source)
MaxLogOff == 3       \* largest offset zvol_log_write() is called with
MaxLogSize == 4      \* largest size zvol_log_write() is called with
MaxCopied == 2       \* largest value of zil_max_copied_data()
MaxBlock == 4        \* largest block size zvol_log_write() is studied with
MaxBios == 3         \* bios handed to zvol_geom_bio_start() by threads that cannot sleep

\* A burst run submits one bio more than boot_ncpus = MaxCpus + 1 admits.
Ctx == 1..(MaxCpus + 2)

\* ------------------------------------------------------- program constants
RL_READER == "RL_READER"
RL_WRITER == "RL_WRITER"
BIO_READ == "BIO_READ"
BIO_WRITE == "BIO_WRITE"
BIO_DELETE == "BIO_DELETE"
BIO_FLUSH == "BIO_FLUSH"
ZVOL_RDONLY == "ZVOL_RDONLY"
ZVOL_WRITTEN_TO == "ZVOL_WRITTEN_TO"
ZVOL_EXCL == "ZVOL_EXCL"
ZFS_VOLMODE_GEOM == "ZFS_VOLMODE_GEOM"
ZFS_VOLMODE_DEV == "ZFS_VOLMODE_DEV"
ZFS_SYNC_ALWAYS == "ZFS_SYNC_ALWAYS"
ZFS_SYNC_STANDARD == "ZFS_SYNC_STANDARD"
ZFS_LOGBIAS_LATENCY == "ZFS_LOGBIAS_LATENCY"
ZFS_LOGBIAS_THROUGHPUT == "ZFS_LOGBIAS_THROUGHPUT"
WR_INDIRECT == "WR_INDIRECT"
WR_COPIED == "WR_COPIED"
WR_NEED_COPY == "WR_NEED_COPY"

VARIABLES
    boot_ncpus,       \* the admission limit, fixed at boot
    os_sync,          \* zv_objset->os_sync
    zl_logbias,       \* zv->zv_zilog->zl_logbias
    spa_has_slogs,    \* spa_has_slogs(zilog->zl_spa)
    nctx,             \* number of bios the front end submits in this run
    bios,             \* the bios it may submit: <<bio_cmd, <<bio_offset, bio_length>>,
                      \* the pattern that fills bio_data of a write>>
    lw,               \* the call of zvol_log_write() under study: its arguments,
                      \* its locals and the itxs it has assigned
    gq,               \* geom_queue, geom_queue_mtx, geom_queue_state and the threads
                      \* that use them: the worker, the producers and zvol_fini()
    zv_active,        \* zv->zv_active
    zv_deferred,      \* zv->zv_deferred, head first
    zv_suspend_ref,   \* zv->zv_suspend_ref
    zv_volsize,       \* zv->zv_volsize
    zv_obj,           \* the bytes of the object ZVOL_OBJ: block -> pattern, 0 a hole
    zv_flags,         \* zv->zv_flags
    zv_open_count,    \* zv->zv_open_count
    zv_dn,            \* zv->zv_dn != NULL
    zv_zilog,         \* zv->zv_zilog != NULL
    zv_suspend_lock,  \* zv->zv_suspend_lock: [w |-> writer or "", r |-> set of readers]
    zv_rangelock,     \* zv->zv_rangelock: the granted locks
    zds,              \* the zvol_strategy_state_t (zvol_dmu_state_t + bio) of each bio
    zil,              \* the ZIL of the volume: itxs assigned but not committed
                      \* (itxs), itxs of commits in progress (inflight), and the
                      \* zil_open() calls since zvol_setup_zv() (opens)
    zvol_state_lock,  \* the registry rwlock: [w |-> writer or "", r |-> readers]
    zvols,            \* the zvol_state_t of each registered volume
    zvol_htable,      \* zvol_htable: bucket -> the volumes chained in it, head first
    zvol_state_list,  \* zvol_state_list, head first
    fnd,              \* the threads calling zvol_find_by_name_hash()
    ren,              \* the thread calling zvol_rename_minors_impl()
    thr,              \* the thread running each synchronous operation
    susp,             \* where the thread calling zvol_suspend/zvol_resume is
    usr,              \* the threads in an open or close of a volume's device
    rem,              \* the thread calling zvol_remove_minors_impl()
    panic             \* the kernel has trapped (NULL dereference, corrupted list)

volVars == <<zv_volsize, zv_obj, zv_flags, zv_open_count, zv_dn, zv_zilog, zv_suspend_lock>>
cfgVars == <<boot_ncpus, os_sync, zl_logbias, spa_has_slogs, nctx, bios, lw, gq>>
ioVars == <<zv_active, zv_deferred, zv_suspend_ref, zv_rangelock, zds, zil>>
userVars == <<thr, susp>>
regVars == <<zvol_state_lock, zvols, zvol_htable, zvol_state_list, fnd, ren>>
\* what no step of the bio pipeline changes
lifeVars == <<usr, rem>>
otherVars == <<cfgVars, lifeVars, userVars, regVars>>
vars == <<cfgVars, lifeVars, volVars, ioVars, userVars, regVars, panic>>

\* Bios of a mixed run: a read and two writes; the writes overlap each other,
\* the second write is disjoint from the read.
MixedBios == {<<BIO_READ, <<0, 1>>, 0>>, <<BIO_WRITE, <<0, 2>>, 1>>, <<BIO_WRITE, <<1, 1>>, 1>>}
\* Bios of a run with synchronous operations.
QuiesceBios == {<<BIO_READ, <<0, 1>>, 0>>, <<BIO_WRITE, <<0, 2>>, 1>>}
\* Bios of a burst run.
BurstBios == {<<BIO_READ, <<0, 1>>, 0>>}
\* Bios of a run at the end of the volume: a read and a write inside the
\* volume, a read at the end and a write past it, and a read of no bytes past
\* the end.
EndBios == {<<BIO_READ, <<0, 1>>, 0>>, <<BIO_WRITE, <<0, 2>>, 1>>,
            <<BIO_READ, <<VolSize, 1>>, 0>>, <<BIO_WRITE, <<VolSize + 1, 1>>, 1>>,
            <<BIO_READ, <<VolSize + 1, 0>>, 0>>}
\* Bios of a round trip: two writes of different patterns, of one block and of
\* the whole volume, and a read of the whole volume.
RoundBios == {<<BIO_WRITE, <<0, VolSize>>, 1>>, <<BIO_WRITE, <<1, 1>>, 2>>,
              <<BIO_READ, <<0, VolSize>>, 0>>}
\* Bios that start inside the volume and reach past its end.
ClipBios == {<<BIO_READ, <<1, VolSize>>, 0>>, <<BIO_WRITE, <<1, VolSize>>, 1>>,
             <<BIO_READ, <<0, VolSize + 1>>, 0>>}
\* <<uio_loffset, uio_resid>> of a character device read that does so.
ClipRanges == {<<1, VolSize>>}
\* <<uio_loffset, uio_resid>> of the character device reads and writes of
\* such a run.
EndRanges == {<<VolSize, 1>>, <<VolSize + 1, 1>>, <<VolSize + 1, 0>>}

\* The CRC polynomial, at HashBits bits.
ZFS_CRC64_POLY == 12

Vols == 1..MaxVols
Finders == 1..MaxFinders
\* no volume
NULL == 0
\* no owner of a lock of the registry
NoOwner == <<>>
RW_NONE == "RW_NONE"
RW_READER == "RW_READER"
RW_WRITER == "RW_WRITER"
\* Dataset names: <<3>> and <<1, 3>> have the same hash, <<2>> another hash in
\* the same bucket, <<3, 1>> a hash in the other bucket.
NameSeq == << <<3>>, <<1, 3>>, <<2>>, <<3, 1>> >>
Names == {NameSeq[i] : i \in DOMAIN NameSeq}

\* A zvol_state_t that zvol_create_minor_impl() has not set up yet.  zso_dev
\* is what the volume's device (pp->private of the GEOM provider, si_drv2 of
\* the character device) refers to: "none" before the device exists, "zv",
\* "NULL" once cleared, "destroyed" once the device is gone.
NoZv == [zv_name |-> <<>>, zv_hash |-> 0, zv_state_lock |-> NoOwner,
         zv_suspend_lock |-> [w |-> NoOwner, r |-> {}],
         zv_open_count |-> 0, zv_objset |-> FALSE, zv_dn |-> FALSE, zv_flags |-> {},
         zv_suspend_ref |-> 0, zso_volmode |-> ZFS_VOLMODE_GEOM,
         zso_dev |-> "none", zv_free |-> "none"]

\* The threads of Part IV: a thread in no call.
Users == 1..MaxUsers
NoUsr == [pc |-> "idle", op |-> "none", zv |-> NULL, fwrite |-> FALSE, fexcl |-> FALSE,
          count |-> 0, drop_suspend |-> FALSE, drop_namespace |-> FALSE, err |-> "0"]
NoRem == [pc |-> "idle", name |-> <<>>, p |-> NULL, free_list |-> {}]
UsrId(u) == <<"user", u>>
RemId == <<"remove", 0>>

\* A thread that has not called / has finished with zvol_find_by_name_hash().
\* `shutdown` tells that its zvol_suspend() has called zvol_shutdown_zv().
NoFnd == [pc |-> "idle", name |-> <<>>, hash |-> 0, mode |-> RW_NONE, p |-> NULL,
          zv |-> NULL, shutdown |-> FALSE]
NoRen == [pc |-> "idle", old |-> <<>>, new |-> <<>>, p |-> NULL]

\* The synchronous operations, each run by a thread of its own; MaxThr of
\* them are entered in a run.
\* A BIO_DELETE or BIO_FLUSH bio is run by the thread that submits it.
Thr == {"zvol_cdev_read", "zvol_cdev_write", "DIOCGDELETE", "DIOCGFLUSH", "zvol_get_data",
        BIO_DELETE, BIO_FLUSH}
\* <<offset, length>> of a synchronous operation
UserRanges == {<<1, 1>>}
\* A thread that has not called its operation yet / has returned from it.
\* `done` counts zvol_done() of the thread's bio.
NoThr == [pc |-> "idle", off |-> 0, len |-> 0, sync |-> FALSE, xfer |-> FALSE,
          err |-> "0", done |-> 0, buf |-> <<>>]
DoneThr == [NoThr EXCEPT !.pc = "done"]
\* A character device read or write of <<off, len>> that returned EIO.
EioThr(off, len) == [DoneThr EXCEPT !.off = off, !.len = len, !.err = "EIO"]
\* A DIOCGDELETE of <<off, len>> that returned EINVAL.
EinvalThr(off, len) == [DoneThr EXCEPT !.off = off, !.len = len, !.err = "EINVAL"]

\* A bio that has not been submitted yet.  `tx` tells that the bio has a
\* transaction that dmu_tx_assign() assigned and dmu_tx_commit() has not ended.
NoZds == [cmd |-> "none", off |-> 0, io_size |-> 0, pc |-> "idle", step |-> 0,
          retry |-> FALSE, sync |-> FALSE, xfer |-> FALSE, logged |-> FALSE,
          done |-> 0, err |-> "0", tx |-> FALSE, bio_length |-> 0, bio_data |-> 0,
          buf |-> <<>>]
\* A bio whose zvol_strategy_state_t has been freed; `done` counts zvol_done().
DoneZds(n) == [NoZds EXCEPT !.pc = "done", !.done = n]

\* ------------------------------------------------------------ pure helpers
MIN(a, b) == IF a < b THEN a ELSE b

\* the value of an expression of type uint64_t
U64(x) == x % (2^OffBits)

\* the limit test admitting one context more than the limit
zvol_dmu_max_active_gt(active, ncpus) == active > ncpus

\* zvol_dmu_max_active(): return (zv->zv_active >= boot_ncpus)
zvol_dmu_max_active(active, ncpus) == active >= ncpus

\* an insertion at the head of the list
list_insert_head(q, c) == <<c>> \o q

\* list_insert_tail(&zv->zv_deferred, zds)
list_insert_tail(q, c) == Append(q, c)

\* a re-check that defers behind a single active context
zvol_geom_bio_async_recheck_gt0(active) == active > 0

\* a front end that enqueues without looking at zv_active again
zvol_geom_bio_async_recheck_none(active) == TRUE

\* the locked re-check of the front-end pre-check: if (zv->zv_active > 1)
zvol_geom_bio_async_recheck(active) == active > 1

\* zvol_dmu_issue() giving the slot away before it calls dmu_issue()
zvol_dmu_issue_steps_release_first == <<"zvol_dmu_ctx_init_deferred", "dmu_issue">>

\* the statements of zvol_dmu_issue() after the range lock is recorded
zvol_dmu_issue_steps == <<"dmu_issue", "zvol_dmu_ctx_init_deferred">>

\* a zvol_dmu_done() that commits for reads instead of writes
zvol_dmu_done_commits_reads(cmd, sync) == cmd = BIO_READ /\ sync = ZFS_SYNC_ALWAYS

\* zvol_dmu_done(): the condition under which zil_commit_async() is called
zvol_dmu_done_commits(cmd, sync) == cmd # BIO_READ /\ sync = ZFS_SYNC_ALWAYS

\* every bio asking for a reader lock
zvol_rangelock_mode_reader(cmd) == RL_READER

\* lock mode a bio asks the range lock for
zvol_rangelock_mode(cmd) == IF cmd = BIO_READ THEN RL_READER ELSE RL_WRITER

\* the bounds check letting a bio that starts at the very end through
zvol_dmu_ctx_init_err_beyond(cmd, off, io_size) ==
    \/ (cmd # BIO_READ /\ ZVOL_RDONLY \in zv_flags)
    \/ (io_size > 0 /\ off > zv_volsize)

\* zvol_dmu_ctx_init(): the checks that set err before admission
zvol_dmu_ctx_init_err(cmd, off, io_size) ==
    \/ (cmd # BIO_READ /\ ZVOL_RDONLY \in zv_flags)
    \/ (io_size > 0 /\ off >= zv_volsize)

\* no truncation at all
zvol_dmu_io_size_untruncated(io_size, off) == io_size

\* a truncation to one block short of the end of the volume
zvol_dmu_io_size_short(io_size, off) == MIN(io_size, U64(zv_volsize - off - 1))

\* zvol_dmu_ctx_init(): zds->zds_io_size = MIN(io_size, zv->zv_volsize - off)
zvol_dmu_io_size(io_size, off) == MIN(io_size, U64(zv_volsize - off))

\* The block size of the volume and the largest block whose writes are copied
\* into the log, in the unit of offsets and sizes: a write of the whole
\* block is on one side of the test of zvol_log_write(), a shorter one on the
\* other.
zv_volblocksize == 2
zvol_immediate_write_sz == 1

\* zvol_log_write(): the write_state chosen before the loop, for a volume
\* of block size `blocksize`
zvol_log_write_state(blocksize, size, sync) ==
    IF zl_logbias = ZFS_LOGBIAS_THROUGHPUT
    THEN WR_INDIRECT
    ELSE IF ~spa_has_slogs /\ size >= blocksize
                           /\ blocksize > zvol_immediate_write_sz
    THEN WR_INDIRECT
    ELSE IF sync THEN WR_COPIED ELSE WR_NEED_COPY

\* zvol_log_write(): the write_state of the itxs of a write of `size` bytes
zvol_log_write(size, sync) == zvol_log_write_state(zv_volblocksize, size, sync)

\* The blocks [off, off + size) of the object.
ObjRange(off, size) == {b \in DOMAIN zv_obj : off <= b /\ b < off + size}

\* dmu_buf_set_transfer() of a write: the bytes of the caller's buffer are
\* copied into the blocks [off, off + size) of the object
dmu_buf_set_transfer_write(off, size, data) ==
    [b \in DOMAIN zv_obj |-> IF b \in ObjRange(off, size) THEN data ELSE zv_obj[b]]

\* dmu_buf_set_transfer() of a read: the caller's buffer receives the bytes of
\* the blocks [off, off + size), and zeroes past the end of the object
dmu_buf_set_transfer(off, size) ==
    [i \in 1..size |-> IF off + i - 1 \in DOMAIN zv_obj THEN zv_obj[off + i - 1] ELSE 0]

\* dmu_free_long_range(): the blocks [off, off + size) become holes
dmu_free_long_range(off, size) ==
    [b \in DOMAIN zv_obj |-> IF b \in ObjRange(off, size) THEN 0 ELSE zv_obj[b]]

\* Range lock manager: two ranges overlap / a request conflicts with a granted lock.
Overlap(o1, l1, o2, l2) == l1 > 0 /\ l2 > 0 /\ o1 < o2 + l2 /\ o2 < o1 + l1
Conflict(a, b) ==
    /\ Overlap(a.off, a.len, b.off, b.len)
    /\ RL_WRITER \in {a.mode, b.mode}
Grantable(req) == \A h \in zv_rangelock : h.owner = req.owner \/ ~Conflict(req, h)
RlReq(owner, off, len, mode) == [owner |-> owner, off |-> off, len |-> len, mode |-> mode]
ZdsReq(c) == RlReq(<<"zds", c>>, zds[c].off, zds[c].io_size,
                   zvol_rangelock_mode(zds[c].cmd))
\* zfs_rangelock_exit(lr)
zfs_rangelock_exit(owner) == {h \in zv_rangelock : h.owner # owner}

\* rw_enter(&zv->zv_suspend_lock, RW_WRITER) can return
RwFree == zv_suspend_lock.w = "" /\ zv_suspend_lock.r = {}

\* ------------------------------------------------ Part I: the bio pipeline
\* zvol_dmu_ctx_init_deferred(): hand the slot to the head of zv_deferred, or
\* give it back.  Applied to the zds map the caller has already updated.
zvol_dmu_ctx_init_deferred(z) ==
    /\ zv_deferred' = IF zv_deferred # <<>> THEN Tail(zv_deferred) ELSE zv_deferred
    /\ zv_active' = IF zv_deferred # <<>> THEN zv_active ELSE zv_active - 1
    /\ zds' = IF zv_deferred # <<>>
              THEN [z EXCEPT ![Head(zv_deferred)].retry = TRUE,
                             ![Head(zv_deferred)].pc = "promoted"]
              ELSE z

\* zvol_strategy_done(): zvol_rele(), zvol_done(bp, err), kmem_free(zss).
\* `n` is the number of times it runs for the bio in this step; `how` is the
\* error it is called with, or "epilogue" for zvol_strategy_epilogue(),
\* which passes dc_err on.
zvol_strategy_done(r, how, n) ==
    [DoneZds(r.done + n) EXCEPT !.err = IF how = "epilogue" THEN "0" ELSE how]

\* zvol_strategy_impl() and zvol_geom_bio_async() up to the unlocked
\* zvol_dmu_max_active() test, or, for a write that finds zv_zilog == NULL in
\* zvol_ensure_zilog_async(), up to rw_enter(&zv->zv_suspend_lock, RW_WRITER).
zvol_strategy_impl(c, cmd, rng, data) ==
    /\ ~panic
    /\ c <= nctx
    /\ <<cmd, rng, data>> \in bios
    /\ zds[c].pc = "idle"
    /\ IF c = 1 THEN TRUE ELSE zds[c - 1].pc # "idle"
    /\ LET new == [NoZds EXCEPT !.cmd = cmd, !.off = rng[1], !.io_size = rng[2],
                                 !.bio_length = rng[2], !.bio_data = data]
       IN
       IF cmd # BIO_READ /\ ZVOL_RDONLY \in zv_flags
       THEN \* zvol_done(bp, EROFS)
            /\ zds' = [zds EXCEPT ![c] = zvol_strategy_done(new, "EROFS", 1)]
            /\ UNCHANGED <<otherVars, volVars, zv_active, zv_deferred, zv_suspend_ref,
                           zv_rangelock, zil, panic>>
       ELSE /\ zds' = [zds EXCEPT ![c] =
                        [new EXCEPT !.pc =
                            IF cmd # BIO_READ /\ ~zv_zilog
                            THEN "ensure_async"
                            ELSE IF zvol_dmu_max_active(zv_active, boot_ncpus)
                            THEN "tryenter" ELSE "ctx_init"]]
            /\ UNCHANGED <<otherVars, volVars, zv_active, zv_deferred, zv_suspend_ref,
                           zv_rangelock, zil, panic>>

\* a writer lock holder that opens the ZIL whatever it finds
zvol_ensure_zilog_recheck_skipped(zilog) == TRUE

\* zvol_ensure_zilog() / zvol_ensure_zilog_async(): the second
\* `if (zv->zv_zilog == NULL)`, under the writer lock
zvol_ensure_zilog_recheck(zilog) == ~zilog

\* zvol_ensure_zilog_async(): rw_enter(RW_WRITER) returns; the re-check,
\* zil_open(), rw_exit(); then zvol_geom_bio_async() up to the unlocked
\* zvol_dmu_max_active() test.
zvol_ensure_zilog_async(c) ==
    /\ ~panic
    /\ zds[c].pc = "ensure_async"
    /\ RwFree
    /\ IF zvol_ensure_zilog_recheck(zv_zilog)
       THEN /\ zv_zilog' = TRUE
            /\ zv_flags' = zv_flags \cup {ZVOL_WRITTEN_TO}
            /\ zil' = [zil EXCEPT !.opens = @ + 1]
       ELSE UNCHANGED <<zv_zilog, zv_flags, zil>>
    /\ zds' = [zds EXCEPT ![c].pc = IF zvol_dmu_max_active(zv_active, boot_ncpus)
                                    THEN "tryenter" ELSE "ctx_init"]
    /\ UNCHANGED <<otherVars, zv_volsize, zv_obj, zv_open_count, zv_dn, zv_suspend_lock,
                   zv_active, zv_deferred, zv_suspend_ref, zv_rangelock, panic>>

\* zvol_dmu_ctx_init_enqueue(): atomic_inc(zv_suspend_ref), list_insert_tail
zvol_dmu_ctx_init_enqueue(c) ==
    /\ zv_suspend_ref' = zv_suspend_ref + 1
    /\ zv_deferred' = list_insert_tail(zv_deferred, c)
    /\ zds' = [zds EXCEPT ![c].pc = "deferred"]

\* zvol_geom_bio_async(): mutex_tryenter(&zv->zv_state_lock) after the unlocked
\* test succeeded; `got` is the outcome of the try.  zvol_dmu_ctx_init_enqueue()
\* is a void function whose value is assigned to `error`: `err` tells whether
\* that value is non-zero (the bio is left on the queue) or zero, in which
\* case the queued zds is also handed to zvol_geom_bio_dmu_ctx_init(), to be
\* linked twice or freed while linked.
zvol_geom_bio_async(c, got, err) ==
    /\ ~panic
    /\ zds[c].pc = "tryenter"
    /\ IF got /\ zvol_geom_bio_async_recheck(zv_active)
       THEN IF err
            THEN /\ zvol_dmu_ctx_init_enqueue(c)
                 /\ UNCHANGED panic
            ELSE /\ panic' = TRUE
                 /\ UNCHANGED <<zv_suspend_ref, zv_deferred, zds>>
       ELSE /\ err
            /\ zds' = [zds EXCEPT ![c].pc = "ctx_init"]
            /\ UNCHANGED <<zv_suspend_ref, zv_deferred, panic>>
    /\ UNCHANGED <<otherVars, volVars, zv_active, zv_rangelock, zil>>

\* zvol_geom_bio_dmu_ctx_init() -> zvol_dmu_ctx_init() with zds_retry clear,
\* up to the return after the admission decision.
zvol_dmu_ctx_init(c) ==
    /\ ~panic
    /\ zds[c].pc = "ctx_init"
    /\ LET z == zds[c]
           sync == z.sync \/ (z.cmd # BIO_READ /\ os_sync = ZFS_SYNC_ALWAYS)
       IN
       IF zvol_dmu_ctx_init_err(z.cmd, z.off, z.io_size)
       THEN \* return (err); the caller runs zvol_strategy_done(zss, ENXIO)
            /\ zv_suspend_ref' = zv_suspend_ref + 1 - 1
            /\ zds' = [zds EXCEPT ![c] = zvol_strategy_done([z EXCEPT !.sync = sync],
                                                            "ENXIO", 1)]
            /\ UNCHANGED <<zv_active, zv_deferred>>
       ELSE /\ zv_suspend_ref' = zv_suspend_ref + 1
            /\ IF zvol_dmu_max_active(zv_active, boot_ncpus)
               THEN /\ zv_deferred' = list_insert_tail(zv_deferred, c)
                    /\ zds' = [zds EXCEPT ![c].sync = sync, ![c].pc = "deferred"]
                    /\ UNCHANGED zv_active
               ELSE /\ zv_active' = zv_active + 1
                    /\ zds' = [zds EXCEPT ![c].sync = sync, ![c].pc = "admitted"]
                    /\ UNCHANGED zv_deferred
    /\ UNCHANGED <<otherVars, volVars, zv_rangelock, zil, panic>>

\* zvol_dmu_ctx_init_wrapper() -> zvol_dmu_ctx_init() with zds_retry set,
\* up to the end of the error checks.
zvol_dmu_ctx_init_wrapper(c) ==
    /\ ~panic
    /\ zds[c].pc = "promoted"
    /\ LET z == zds[c]
           sync == z.sync \/ (z.cmd # BIO_READ /\ os_sync = ZFS_SYNC_ALWAYS)
       IN
       IF zvol_dmu_ctx_init_err(z.cmd, z.off, z.io_size)
       THEN \* zvol_dmu_err(): err_cb = zvol_strategy_dmu_err, then release
            /\ zv_suspend_ref' = zv_suspend_ref - 1
            /\ zvol_dmu_ctx_init_deferred(
                 [zds EXCEPT ![c] = zvol_strategy_done([z EXCEPT !.sync = sync],
                                                       "ENXIO", 1)])
       ELSE /\ zds' = [zds EXCEPT ![c].sync = sync, ![c].pc = "admitted"]
            /\ UNCHANGED <<zv_active, zv_deferred, zv_suspend_ref>>
    /\ UNCHANGED <<otherVars, volVars, zv_rangelock, zil, panic>>

\* What the engine calls of the admitted part can report.
EngineOutcomes(cmd) ==
    IF cmd = BIO_READ THEN {"ok", "dmu_ctx_init"}
    ELSE {"ok", "dmu_ctx_init", "dmu_tx_assign"}

\* zvol_dmu_ctx_init() from "Truncate I/Os to the end of the volume" on:
\* dmu_ctx_init(), then zfs_rangelock_tryenter_async() for a read, or
\* zvol_dmu_ctx_init_write() / zvol_dmu_ctx_init_write_impl() for a write:
\* dmu_tx_create(), dmu_tx_assign(tx, TXG_WAIT), dmu_ctx_set_dmu_tx(), and
\* only then zfs_rangelock_tryenter_async().
zvol_dmu_ctx_init_admitted(c, outcome) ==
    /\ ~panic
    /\ zds[c].pc = "admitted"
    /\ outcome \in EngineOutcomes(zds[c].cmd)
    /\ LET z == [zds[c] EXCEPT !.io_size = zvol_dmu_io_size(@, zds[c].off),
                               !.tx = (zds[c].cmd # BIO_READ /\ outcome = "ok")]
           req == RlReq(<<"zds", c>>, z.off, z.io_size, zvol_rangelock_mode(z.cmd))
       IN
       IF ~zv_dn
       THEN \* dmu_ctx_init(&zds->zds_dc, zv->zv_dn, ...) with zv_dn == NULL
            /\ panic' = TRUE
            /\ UNCHANGED <<ioVars>>
       ELSE IF outcome = "dmu_ctx_init"
       THEN \* zvol_dmu_err(zds, err_cb); return (err).  When zds_retry is clear
            \* the caller, zvol_geom_bio_dmu_ctx_init(), sees err and runs
            \* zvol_strategy_done() as well.
            /\ zv_suspend_ref' = zv_suspend_ref - (IF z.retry THEN 1 ELSE 2)
            /\ zvol_dmu_ctx_init_deferred(
                 [zds EXCEPT ![c] = zvol_strategy_done(z, "ENXIO",
                                                       IF z.retry THEN 1 ELSE 2)])
            /\ UNCHANGED <<zv_rangelock, zil, panic>>
       ELSE IF outcome = "dmu_tx_assign"
       THEN \* dmu_tx_abort(tx); zvol_dmu_err(zds, err_cb)
            /\ zv_suspend_ref' = zv_suspend_ref - 1
            /\ zvol_dmu_ctx_init_deferred(
                 [zds EXCEPT ![c] = zvol_strategy_done(z, "ENXIO", 1)])
            /\ UNCHANGED <<zv_rangelock, zil, panic>>
       ELSE IF Grantable(req)
       THEN \* the lock is granted at once and the call returns 0.  A write
            \* (zvol_dmu_ctx_init_write_impl) and a first-time read (the caller
            \* zvol_geom_bio_dmu_ctx_init) go on to zvol_dmu_issue(); the
            \* wrapper of a promoted read drops the return value.
            /\ zv_rangelock' = zv_rangelock \cup {req}
            /\ zds' = [zds EXCEPT ![c] =
                        IF z.cmd = BIO_READ /\ z.retry
                        THEN [z EXCEPT !.pc = "returned"]
                        ELSE [z EXCEPT !.pc = "issue", !.step = 1]]
            /\ UNCHANGED <<zv_active, zv_deferred, zv_suspend_ref, zil, panic>>
       ELSE \* EINPROGRESS: zvol_dmu_issue() is the grant callback
            /\ zds' = [zds EXCEPT ![c] = [z EXCEPT !.pc = "rl_wait"]]
            /\ UNCHANGED <<zv_active, zv_deferred, zv_suspend_ref, zv_rangelock, zil,
                           panic>>
    /\ UNCHANGED <<otherVars, volVars>>

\* The range lock manager grants a queued request and calls zvol_dmu_issue().
zfs_rangelock_grant(c) ==
    /\ ~panic
    /\ zds[c].pc = "rl_wait"
    /\ Grantable(ZdsReq(c))
    /\ zv_rangelock' = zv_rangelock \cup {ZdsReq(c)}
    /\ zds' = [zds EXCEPT ![c].pc = "issue", ![c].step = 1]
    /\ UNCHANGED <<otherVars, volVars, zv_active, zv_deferred, zv_suspend_ref, zil, panic>>

\* zvol_dmu_issue(): one statement of zvol_dmu_issue_steps; dmu_ctx_rele()
\* follows the last one.  dmu_issue() starts the transfer; for a write the
\* transfer callback zvol_dmu_buf_set_transfer_write() logs it when zds_sync.
zvol_dmu_issue(c) ==
    /\ ~panic
    /\ zds[c].pc = "issue"
    /\ LET z == zds[c]
           stmt == zvol_dmu_issue_steps[z.step]
           nxt == IF z.step = Len(zvol_dmu_issue_steps)
                  THEN [z EXCEPT !.pc = "io", !.step = 0]
                  ELSE [z EXCEPT !.step = @ + 1]
       IN
       IF stmt = "dmu_issue"
       THEN IF z.cmd # BIO_READ /\ z.sync /\ ~zv_zilog
            THEN \* zvol_log_write(): zilog->zl_logbias with zv_zilog == NULL
                 /\ panic' = TRUE
                 /\ UNCHANGED <<ioVars, zv_obj>>
            ELSE /\ zds' = [zds EXCEPT ![c] =
                              [nxt EXCEPT !.xfer = TRUE,
                                          !.logged = (z.cmd # BIO_READ /\ z.sync),
                                          !.buf = IF z.cmd = BIO_READ
                                                  THEN dmu_buf_set_transfer(z.off, z.io_size)
                                                  ELSE @]]
                 /\ zv_obj' = IF z.cmd = BIO_READ THEN zv_obj
                               ELSE dmu_buf_set_transfer_write(z.off, z.io_size, z.bio_data)
                 /\ zil' = IF z.cmd # BIO_READ /\ z.sync
                            THEN [zil EXCEPT !.itxs = @ \cup {<<"zds", c>>}] ELSE zil
                 /\ UNCHANGED <<zv_active, zv_deferred, zv_suspend_ref,
                                zv_rangelock, panic>>
       ELSE /\ zvol_dmu_ctx_init_deferred([zds EXCEPT ![c] = nxt])
            /\ UNCHANGED <<zv_suspend_ref, zv_rangelock, zil, zv_obj, panic>>
    /\ UNCHANGED <<otherVars, zv_volsize, zv_flags, zv_open_count, zv_dn, zv_zilog,
                   zv_suspend_lock>>

\* The done callback zvol_strategy_dmu_done() -> zvol_dmu_done(): the range
\* lock is dropped; a write under sync=always calls zil_commit_async(), whose
\* return value `rc` is 0 (the commit is finished, nothing to wait for) or
\* EINPROGRESS (zvol_strategy_epilogue() is called when it finishes).
zvol_strategy_dmu_done(c, rc) ==
    /\ ~panic
    /\ zds[c].pc = "io"
    /\ LET z == [zds[c] EXCEPT !.xfer = FALSE, !.tx = FALSE] IN
       IF zvol_dmu_done_commits(z.cmd, os_sync)
       THEN IF ~zv_zilog
            THEN \* zil_commit_async(NULL, ...)
                 /\ panic' = TRUE
                 /\ UNCHANGED ioVars
            ELSE /\ zv_rangelock' = zfs_rangelock_exit(<<"zds", c>>)
                 /\ IF rc = "EINPROGRESS"
                    THEN /\ zil' = [zil EXCEPT !.itxs = {}, !.inflight = zil.inflight \cup zil.itxs]
                         /\ zds' = [zds EXCEPT ![c] = [z EXCEPT !.pc = "commit"]]
                         /\ UNCHANGED zv_suspend_ref
                    ELSE /\ <<"zds", c>> \notin zil.inflight
                         /\ zil' = [zil EXCEPT !.itxs = {}]
                         /\ zds' = [zds EXCEPT ![c] = zvol_strategy_done(z, "epilogue", 1)]
                         /\ zv_suspend_ref' = zv_suspend_ref - 1
                 /\ UNCHANGED <<zv_active, zv_deferred, panic>>
       ELSE /\ rc = "0"
            /\ zv_rangelock' = zfs_rangelock_exit(<<"zds", c>>)
            /\ zds' = [zds EXCEPT ![c] = zvol_strategy_done(z, "epilogue", 1)]
            /\ zv_suspend_ref' = zv_suspend_ref - 1
            /\ UNCHANGED <<zv_active, zv_deferred, zil, panic>>
    /\ UNCHANGED <<otherVars, volVars>>

\* zvol_strategy_epilogue() run as the zil_commit_async() callback: the commit
\* this bio waited for has finished.
zvol_strategy_epilogue(c) ==
    /\ ~panic
    /\ zds[c].pc = "commit"
    /\ zil' = [zil EXCEPT !.inflight = @ \ {<<"zds", c>>}]
    /\ zds' = [zds EXCEPT ![c] = zvol_strategy_done(zds[c], "epilogue", 1)]
    /\ zv_suspend_ref' = zv_suspend_ref - 1
    /\ UNCHANGED <<otherVars, volVars, zv_active, zv_deferred, zv_rangelock, panic>>

\* ------------------------------------- Part II: synchronous operations
\* lock mode a synchronous operation asks the range lock for
zvol_sync_rangelock_mode(t) ==
    IF t \in {"zvol_cdev_read", "zvol_get_data"} THEN RL_READER ELSE RL_WRITER

\* thread t has not entered its operation, and the run has room for it
ThrIdle(t) ==
    /\ thr[t].pc = "idle"
    /\ Cardinality({u \in Thr : thr[u].pc # "idle"}) < MaxThr

ThrReq(t) == RlReq(<<"thr", t>>, thr[t].off, thr[t].len, zvol_sync_rangelock_mode(t))

\* zvol_cdev_read() / zvol_cdev_write(): the bounds check; uio_loffset is not
\* negative here
zvol_cdev_out_of_range(off, len) == len > 0 /\ off > zv_volsize

\* the transfer loop `while (uio_resid > 0 && uio_loffset < volsize)` runs
zvol_cdev_loop_runs(off, len) == len > 0 /\ off < zv_volsize

\* zvol_cdev_read() / zvol_cdev_write(): the bytes the transfer loop moves
\* from uio_loffset = off on, each pass "don't read past the end":
\* if (bytes > volsize - uio_loffset) bytes = volsize - uio_loffset
zvol_cdev_bytes(off, len) ==
    IF len > zv_volsize - off THEN zv_volsize - off ELSE len

\* zvol_cdev_read() up to the data transfer: the bounds check,
\* zfs_rangelock_enter(RL_READER), dmu_read_uio_dnode(zv->zv_dn, ...).
zvol_cdev_read(off, len) ==
    LET t == "zvol_cdev_read"
        req == RlReq(<<"thr", t>>, off, len, zvol_sync_rangelock_mode(t))
    IN
    /\ ~panic
    /\ ThrIdle(t)
    /\ IF zvol_cdev_out_of_range(off, len)
       THEN \* return (EIO)
            /\ thr' = [thr EXCEPT ![t] = EioThr(off, len)]
            /\ UNCHANGED <<zv_rangelock, panic>>
       ELSE /\ Grantable(req)
            /\ IF zvol_cdev_loop_runs(off, len) /\ ~zv_dn
               THEN /\ panic' = TRUE
                    /\ UNCHANGED <<zv_rangelock, thr>>
               ELSE /\ zv_rangelock' = zv_rangelock \cup {req}
                    /\ thr' = [thr EXCEPT ![t] =
                                [NoThr EXCEPT !.pc = "xfer", !.off = off, !.len = len,
                                              !.xfer = zvol_cdev_loop_runs(off, len),
                                              !.buf = IF zvol_cdev_loop_runs(off, len)
                                                      THEN dmu_buf_set_transfer(off,
                                                               zvol_cdev_bytes(off, len))
                                                      ELSE <<>>]]
                    /\ UNCHANGED panic
    /\ UNCHANGED <<cfgVars, lifeVars, regVars, volVars, zv_active, zv_deferred, zv_suspend_ref, zds, zil,
                   susp>>

\* zvol_cdev_read() / zvol_get_done(): the transfer is over, zfs_rangelock_exit()
zvol_read_exit(t) ==
    /\ ~panic
    /\ t \in {"zvol_cdev_read", "zvol_get_data"}
    /\ thr[t].pc = "xfer"
    /\ zv_rangelock' = zfs_rangelock_exit(<<"thr", t>>)
    /\ thr' = [thr EXCEPT ![t] = DoneThr]
    /\ UNCHANGED <<cfgVars, lifeVars, regVars, volVars, zv_active, zv_deferred, zv_suspend_ref, zds, zil,
                   susp, panic>>

\* zvol_get_data() called by the ZIL for a record it is committing:
\* zfs_rangelock_enter(RL_READER), then dmu_read_by_dnode(zv->zv_dn, ...) or
\* dmu_buf_hold_by_dnode(zv->zv_dn, ...).
zvol_get_data(off, len) ==
    LET t == "zvol_get_data"
        req == RlReq(<<"thr", t>>, off, len, zvol_sync_rangelock_mode(t))
    IN
    /\ ~panic
    /\ ThrIdle(t)
    /\ zv_zilog
    /\ zil.itxs \cup zil.inflight # {}
    /\ Grantable(req)
    /\ IF ~zv_dn
       THEN /\ panic' = TRUE
            /\ UNCHANGED <<zv_rangelock, thr>>
       ELSE /\ zv_rangelock' = zv_rangelock \cup {req}
            /\ thr' = [thr EXCEPT ![t] =
                        [NoThr EXCEPT !.pc = "xfer", !.off = off, !.len = len,
                                      !.xfer = TRUE]]
            /\ UNCHANGED panic
    /\ UNCHANGED <<cfgVars, lifeVars, regVars, volVars, zv_active, zv_deferred, zv_suspend_ref, zds, zil,
                   susp>>

\* zvol_cdev_write() up to rw_enter(&zv->zv_suspend_lock, ZVOL_RW_READER):
\* the bounds check and `sync`; io_sync is ioflag & IO_SYNC.
zvol_cdev_write(off, len, io_sync) ==
    LET t == "zvol_cdev_write" IN
    /\ ~panic
    /\ ThrIdle(t)
    /\ IF zvol_cdev_out_of_range(off, len)
       THEN \* return (EIO)
            /\ thr' = [thr EXCEPT ![t] = EioThr(off, len)]
            /\ UNCHANGED zv_suspend_lock
       ELSE /\ zv_suspend_lock.w = ""
            /\ zv_suspend_lock' = [zv_suspend_lock EXCEPT !.r = @ \cup {t}]
            /\ thr' = [thr EXCEPT ![t] =
                        [NoThr EXCEPT !.pc = "ensure", !.off = off, !.len = len,
                                      !.sync = (io_sync \/ os_sync = ZFS_SYNC_ALWAYS)]]
    /\ UNCHANGED <<cfgVars, lifeVars, regVars, zv_volsize, zv_obj, zv_flags, zv_open_count, zv_dn, zv_zilog,
                   ioVars, susp, panic>>

\* zvol_cdev_ioctl(DIOCGDELETE) up to rw_enter(&zv->zv_suspend_lock,
\* ZVOL_RW_READER): the argument check.
zvol_cdev_ioctl_delete(off, len) ==
    LET t == "DIOCGDELETE" IN
    /\ ~panic
    /\ ThrIdle(t)
    /\ IF off < 0 \/ off >= zv_volsize \/ len <= 0
       THEN \* error = EINVAL
            /\ thr' = [thr EXCEPT ![t] = EinvalThr(off, len)]
            /\ UNCHANGED zv_suspend_lock
       ELSE /\ zv_suspend_lock.w = ""
            /\ zv_suspend_lock' = [zv_suspend_lock EXCEPT !.r = @ \cup {t}]
            /\ thr' = [thr EXCEPT ![t] =
                        [NoThr EXCEPT !.pc = "ensure", !.off = off, !.len = len]]
    /\ UNCHANGED <<cfgVars, lifeVars, regVars, zv_volsize, zv_obj, zv_flags, zv_open_count, zv_dn, zv_zilog,
                   ioVars, susp, panic>>

\* zvol_ensure_zilog() with the quiesce lock held as reader: nothing to do, or
\* rw_tryupgrade() succeeds and the ZIL is opened, or the lock is dropped to
\* be taken again as writer.
zvol_ensure_zilog(t) ==
    /\ ~panic
    /\ thr[t].pc = "ensure"
    /\ IF zv_zilog
       THEN /\ thr' = [thr EXCEPT ![t].pc = "rangelock"]
            /\ UNCHANGED <<zv_zilog, zv_flags, zv_suspend_lock, zil>>
       ELSE IF zv_suspend_lock.r = {t}
       THEN \* rw_tryupgrade(), zil_open(), rw_downgrade()
            /\ zv_zilog' = TRUE
            /\ zv_flags' = zv_flags \cup {ZVOL_WRITTEN_TO}
            /\ zil' = [zil EXCEPT !.opens = @ + 1]
            /\ thr' = [thr EXCEPT ![t].pc = "rangelock"]
            /\ UNCHANGED zv_suspend_lock
       ELSE \* rw_exit(); rw_enter(RW_WRITER) blocks
            /\ zv_suspend_lock' = [zv_suspend_lock EXCEPT !.r = @ \ {t}]
            /\ thr' = [thr EXCEPT ![t].pc = "ensure_writer"]
            /\ UNCHANGED <<zv_zilog, zv_flags, zil>>
    /\ UNCHANGED <<cfgVars, lifeVars, regVars, zv_volsize, zv_obj, zv_open_count, zv_dn, zv_active,
                   zv_deferred, zv_suspend_ref, zv_rangelock, zds, susp, panic>>

\* zvol_ensure_zilog(): rw_enter(RW_WRITER) returns; the re-check, zil_open(),
\* rw_downgrade().
zvol_ensure_zilog_writer(t) ==
    /\ ~panic
    /\ thr[t].pc = "ensure_writer"
    /\ RwFree
    /\ IF zvol_ensure_zilog_recheck(zv_zilog)
       THEN /\ zv_zilog' = TRUE
            /\ zv_flags' = zv_flags \cup {ZVOL_WRITTEN_TO}
            /\ zil' = [zil EXCEPT !.opens = @ + 1]
       ELSE UNCHANGED <<zv_zilog, zv_flags, zil>>
    /\ zv_suspend_lock' = [w |-> "", r |-> {t}]
    /\ thr' = [thr EXCEPT ![t].pc = "rangelock"]
    /\ UNCHANGED <<cfgVars, lifeVars, regVars, zv_volsize, zv_obj, zv_open_count, zv_dn, zv_active,
                   zv_deferred, zv_suspend_ref, zv_rangelock, zds, susp, panic>>

\* zvol_cdev_write() / DIOCGDELETE: zfs_rangelock_enter(RL_WRITER) returns and
\* the transaction on zv->zv_dn / zv->zv_objset starts.
zvol_sync_rangelock_enter(t) ==
    /\ ~panic
    /\ t \in {"zvol_cdev_write", "DIOCGDELETE"}
    /\ thr[t].pc = "rangelock"
    /\ Grantable(ThrReq(t))
    /\ LET runs == t = "DIOCGDELETE" \/ zvol_cdev_loop_runs(thr[t].off, thr[t].len) IN
       IF t = "zvol_cdev_write" /\ runs /\ ~zv_dn
       THEN \* dmu_tx_hold_write_by_dnode(tx, zv->zv_dn, ...) with zv_dn == NULL
            /\ panic' = TRUE
            /\ UNCHANGED <<zv_rangelock, zv_obj, thr>>
       ELSE /\ zv_rangelock' = zv_rangelock \cup {ThrReq(t)}
            /\ thr' = [thr EXCEPT ![t].pc = "xfer", ![t].xfer = runs]
            \* dmu_write_uio_dnode() of a buffer of pattern 1 / dmu_free_long_range()
            /\ zv_obj' = IF t = "DIOCGDELETE"
                          THEN dmu_free_long_range(thr[t].off, thr[t].len)
                          ELSE IF runs
                          THEN dmu_buf_set_transfer_write(thr[t].off,
                                   zvol_cdev_bytes(thr[t].off, thr[t].len), 1)
                          ELSE zv_obj
            /\ UNCHANGED panic
    /\ UNCHANGED <<cfgVars, lifeVars, regVars, zv_volsize, zv_flags, zv_open_count, zv_dn,
                   zv_zilog, zv_suspend_lock, zv_active, zv_deferred, zv_suspend_ref, zds, zil,
                   susp>>

\* zvol_cdev_write() / DIOCGDELETE from the log record on: zvol_log_write() or
\* zvol_log_truncate(), zfs_rangelock_exit(), zil_commit() if sync, rw_exit().
zvol_sync_exit(t) ==
    /\ ~panic
    /\ t \in {"zvol_cdev_write", "DIOCGDELETE"}
    /\ thr[t].pc = "xfer"
    /\ LET sync == IF t = "DIOCGDELETE" THEN os_sync = ZFS_SYNC_ALWAYS ELSE thr[t].sync
       IN
       zil' = IF sync THEN [zil EXCEPT !.itxs = {}]
              ELSE IF thr[t].xfer THEN [zil EXCEPT !.itxs = @ \cup {<<"thr", t>>}]
              ELSE zil
    /\ zv_rangelock' = zfs_rangelock_exit(<<"thr", t>>)
    /\ zv_suspend_lock' = [zv_suspend_lock EXCEPT !.r = @ \ {t}]
    /\ thr' = [thr EXCEPT ![t] = DoneThr]
    /\ UNCHANGED <<cfgVars, lifeVars, regVars, zv_volsize, zv_obj, zv_flags, zv_open_count, zv_dn, zv_zilog,
                   zv_active, zv_deferred, zv_suspend_ref, zds, susp, panic>>

\* zvol_cdev_ioctl(DIOCGFLUSH): rw_enter(READER), zil_commit() if the ZIL is
\* open, rw_exit().
zvol_cdev_ioctl_flush ==
    LET t == "DIOCGFLUSH" IN
    /\ ~panic
    /\ ThrIdle(t)
    /\ zv_suspend_lock.w = ""
    /\ zil' = IF zv_zilog THEN [zil EXCEPT !.itxs = {}] ELSE zil
    /\ thr' = [thr EXCEPT ![t] = DoneThr]
    /\ UNCHANGED <<cfgVars, lifeVars, regVars, volVars, zv_active, zv_deferred, zv_suspend_ref,
                   zv_rangelock, zds, susp, panic>>

\* A BIO_DELETE or BIO_FLUSH bio that zvol_done() was called for with `err`.
BioDoneThr(r, err) ==
    [DoneThr EXCEPT !.off = r.off, !.len = r.len, !.err = err, !.done = r.done + 1]

\* zvol_strategy_impl() with a BIO_DELETE or BIO_FLUSH bio: the read-only
\* test, then zvol_geom_bio_sync() up to rw_enter(&zv->zv_suspend_lock,
\* ZVOL_RW_READER).
zvol_geom_bio_sync(t, off, len) ==
    /\ ~panic
    /\ t \in {BIO_DELETE, BIO_FLUSH}
    /\ ThrIdle(t)
    /\ LET new == [NoThr EXCEPT !.off = off, !.len = len] IN
       IF ZVOL_RDONLY \in zv_flags
       THEN \* zvol_done(bp, EROFS)
            /\ thr' = [thr EXCEPT ![t] = BioDoneThr(new, "EROFS")]
            /\ UNCHANGED zv_suspend_lock
       ELSE /\ zv_suspend_lock.w = ""
            /\ zv_suspend_lock' = [zv_suspend_lock EXCEPT !.r = @ \cup {t}]
            /\ thr' = [thr EXCEPT ![t] = [new EXCEPT !.pc = "ensure"]]
    /\ UNCHANGED <<cfgVars, lifeVars, regVars, zv_volsize, zv_obj, zv_flags, zv_open_count, zv_dn,
                   zv_zilog, ioVars, susp, panic>>

\* zvol_geom_bio_sync(BIO_DELETE): zfs_rangelock_enter(RL_WRITER) returns;
\* dmu_tx_assign() succeeds (`assigned`) and zvol_log_truncate(),
\* dmu_tx_commit() and dmu_free_long_range() run, or fails and the
\* transaction is aborted.
zvol_geom_bio_sync_free(assigned) ==
    LET t == BIO_DELETE IN
    /\ ~panic
    /\ thr[t].pc = "rangelock"
    /\ Grantable(ThrReq(t))
    /\ zv_rangelock' = zv_rangelock \cup {ThrReq(t)}
    /\ zil' = IF assigned THEN [zil EXCEPT !.itxs = @ \cup {<<"thr", t>>}] ELSE zil
    /\ zv_obj' = IF assigned THEN dmu_free_long_range(thr[t].off, thr[t].len) ELSE zv_obj
    /\ thr' = [thr EXCEPT ![t].pc = "xfer", ![t].xfer = assigned]
    /\ UNCHANGED <<cfgVars, lifeVars, regVars, zv_volsize, zv_flags, zv_open_count, zv_dn,
                   zv_zilog, zv_suspend_lock, zv_active, zv_deferred, zv_suspend_ref,
                   zds, susp, panic>>

\* zvol_geom_bio_sync(BIO_DELETE): the error of a bio that was not completed
\* (bio_completed < bio_length && off > volsize); `freed` tells whether the
\* transaction was assigned, and then resid is 0.
zvol_geom_bio_sync_err(off, freed) ==
    IF freed THEN "0" ELSE IF off > zv_volsize THEN "EINVAL" ELSE "dmu_tx_assign"

\* zvol_geom_bio_sync() from zfs_rangelock_exit() (BIO_DELETE) or from the
\* label sync (BIO_FLUSH) to its return: zvol_commit_async() if sync, whose
\* zil_commit_async() returns `rc`, rw_exit(), and zvol_done() if rc == 0.
zvol_geom_bio_sync_exit(t, rc) ==
    /\ ~panic
    /\ \/ t = BIO_DELETE /\ thr[t].pc = "xfer"
       \/ t = BIO_FLUSH /\ thr[t].pc = "rangelock"
    /\ rc \in {"0", "EINPROGRESS"}
    /\ LET sync == t = BIO_FLUSH \/ os_sync = ZFS_SYNC_ALWAYS
           error == IF t = BIO_FLUSH THEN "0"
                    ELSE zvol_geom_bio_sync_err(thr[t].off, thr[t].xfer)
           z == [thr[t] EXCEPT !.xfer = FALSE, !.err = error]
       IN
       /\ zv_rangelock' = zfs_rangelock_exit(<<"thr", t>>)
       /\ zv_suspend_lock' = [zv_suspend_lock EXCEPT !.r = @ \ {t}]
       /\ IF ~sync
          THEN /\ rc = "0"
               /\ thr' = [thr EXCEPT ![t] = BioDoneThr(z, error)]
               /\ UNCHANGED <<zil, zv_suspend_ref>>
          ELSE IF rc = "EINPROGRESS"
          THEN \* zvol_hold(zv, zcs); zvol_commit_done() is called later
               /\ zil' = [zil EXCEPT !.itxs = {}, !.inflight = zil.inflight \cup zil.itxs]
               /\ thr' = [thr EXCEPT ![t] = [z EXCEPT !.pc = "commit"]]
               /\ zv_suspend_ref' = zv_suspend_ref + 1
          ELSE \* zvol_hold(zv, zcs); zvol_rele(zv, zcs); kmem_free(zcs)
               /\ zil' = [zil EXCEPT !.itxs = {}]
               /\ thr' = [thr EXCEPT ![t] = BioDoneThr(z, error)]
               /\ zv_suspend_ref' = zv_suspend_ref + 1 - 1
    /\ UNCHANGED <<cfgVars, lifeVars, regVars, zv_volsize, zv_obj, zv_flags, zv_open_count, zv_dn,
                   zv_zilog, zv_active, zv_deferred, zds, susp, panic>>

\* zvol_commit_done() run as the zil_commit_async() callback: zvol_rele(),
\* zvol_done(zcs_bp, zcs_error), kmem_free(zcs).
zvol_commit_done(t) ==
    /\ ~panic
    /\ thr[t].pc = "commit"
    /\ zil' = [zil EXCEPT !.inflight = @ \ {<<"thr", t>>}]
    /\ zv_suspend_ref' = zv_suspend_ref - 1
    /\ thr' = [thr EXCEPT ![t] = BioDoneThr(thr[t], thr[t].err)]
    /\ UNCHANGED <<cfgVars, lifeVars, regVars, volVars, zv_active, zv_deferred, zv_rangelock,
                   zds, susp, panic>>

\* zvol_suspend(): zvol_find_by_name(name, RW_WRITER) returns with the quiesce
\* lock held as writer; atomic_inc(zv_suspend_ref); zvol_shutdown_zv() if the
\* volume is open.
zvol_suspend ==
    /\ ~panic
    /\ susp = "idle"
    /\ RwFree
    /\ zv_suspend_lock' = [zv_suspend_lock EXCEPT !.w = "zvol_suspend"]
    /\ zv_suspend_ref' = zv_suspend_ref + 1
    /\ IF zv_open_count > 0
       THEN \* zvol_shutdown_zv(): zil_close() commits what the ZIL holds
            /\ zil' = IF ZVOL_WRITTEN_TO \in zv_flags
                      THEN [zil EXCEPT !.itxs = {}] ELSE zil
            /\ zv_zilog' = FALSE
            /\ zv_dn' = FALSE
       ELSE UNCHANGED <<zil, zv_zilog, zv_dn>>
    /\ susp' = "suspended"
    /\ UNCHANGED <<cfgVars, lifeVars, regVars, zv_volsize, zv_obj, zv_flags, zv_open_count, zv_active,
                   zv_deferred, zv_rangelock, zds, thr, panic>>

\* What zvol_setup_zv() finds: the volume writable, read-only, or a lookup
\* that fails before dnode_hold() has bound zv_dn.
SetupOutcomes == {"rw", "ro", "error"}

\* zvol_resume(): zvol_setup_zv() if the volume is open, rw_exit(),
\* atomic_dec(zv_suspend_ref); return (SET_ERROR(error)): the caller has
\* "failed" when zvol_setup_zv() returned an error.
zvol_resume(outcome) ==
    /\ ~panic
    /\ susp = "suspended"
    /\ outcome \in SetupOutcomes
    /\ IF zv_open_count > 0
       THEN /\ zv_zilog' = FALSE
            /\ zv_dn' = (outcome # "error")
            /\ zv_flags' = IF outcome = "error" THEN zv_flags \ {ZVOL_WRITTEN_TO}
                           ELSE IF outcome = "ro"
                           THEN (zv_flags \ {ZVOL_WRITTEN_TO}) \cup {ZVOL_RDONLY}
                           ELSE zv_flags \ {ZVOL_WRITTEN_TO, ZVOL_RDONLY}
       ELSE /\ outcome = "rw"
            /\ UNCHANGED <<zv_zilog, zv_dn, zv_flags>>
    /\ zv_suspend_lock' = [zv_suspend_lock EXCEPT !.w = ""]
    /\ zv_suspend_ref' = zv_suspend_ref - 1
    /\ susp' = IF zv_open_count > 0 /\ outcome = "error" THEN "failed" ELSE "resumed"
    /\ zil' = IF zv_open_count > 0 THEN [zil EXCEPT !.opens = 0] ELSE zil
    /\ UNCHANGED <<cfgVars, lifeVars, regVars, zv_volsize, zv_obj, zv_open_count, zv_active, zv_deferred,
                   zv_rangelock, zds, thr, panic>>

\* ------------------------------------------------ Part III: the registry
RECURSIVE BitXor(_, _)
BitXor(a, b) ==
    IF a = 0 THEN b
    ELSE IF b = 0 THEN a
    ELSE (((a % 2) + (b % 2)) % 2) + 2 * BitXor(a \div 2, b \div 2)

RECURSIVE BitAnd(_, _)
BitAnd(a, b) ==
    IF a = 0 \/ b = 0 THEN 0
    ELSE ((a % 2) * (b % 2)) + 2 * BitAnd(a \div 2, b \div 2)

\* zfs_crc64_table[i]: i shifted out bit by bit, the polynomial folded in
RECURSIVE zfs_crc64_round(_, _)
zfs_crc64_round(ct, n) ==
    IF n = 0 THEN ct
    ELSE zfs_crc64_round(BitXor(ct \div 2, IF ct % 2 = 1 THEN ZFS_CRC64_POLY ELSE 0),
                         n - 1)
zfs_crc64_table(i) == zfs_crc64_round(i, ByteBits)

\* zvol_name_hash(): crc = -1ULL; for (i = 0; i < MAXNAMELEN - 1 && *p; i++, p++)
\*   crc = (crc >> 8) ^ zfs_crc64_table[(crc ^ *p) & 0xFF]
RECURSIVE zvol_name_hash_loop(_, _, _)
zvol_name_hash_loop(name, i, crc) ==
    IF i < MAXNAMELEN - 1 /\ i < Len(name)
    THEN zvol_name_hash_loop(name, i + 1,
            BitXor(crc \div (2^ByteBits),
                   zfs_crc64_table(BitAnd(BitXor(crc, name[i + 1]), 2^ByteBits - 1))))
    ELSE crc
zvol_name_hash(name) == zvol_name_hash_loop(name, 0, 2^HashBits - 1)

\* ZVOL_HT_HEAD(hash): the bucket of a hash
ZVOL_HT_HEAD(hash) == BitAnd(hash, ZVOL_HT_SIZE - 1)

\* strncmp(a, b, n) == 0
strncmp_eq(a, b, n) ==
    SubSeq(a, 1, MIN(Len(a), n)) = SubSeq(b, 1, MIN(Len(b), n))

\* the hash zvol_rename_minor() stores: zvol_name_hash(zv->zv_name), computed
\* before zv_name is overwritten with the new name
zvol_rename_minor_hash(oldname, newname) == zvol_name_hash(oldname)

\* the mode in which zvol_rename_minors_impl() takes zvol_state_lock
zvol_rename_minors_lock == RW_READER

\* rw_tryenter(&zv->zv_suspend_lock, mode) succeeds
rw_tryenter_ok(l, mode) ==
    IF mode = RW_WRITER THEN l.w = NoOwner /\ l.r = {} ELSE l.w = NoOwner
rw_entered(l, mode, who) ==
    IF mode = RW_WRITER THEN [l EXCEPT !.w = who] ELSE [l EXCEPT !.r = @ \cup {who}]
rw_exited(l, who) ==
    [w |-> IF l.w = who THEN NoOwner ELSE l.w, r |-> l.r \ {who}]

\* hlist: the chain a node is in, the node after it, unlinking it
BucketOf(v) == CHOOSE b \in DOMAIN zvol_htable :
                   \E i \in DOMAIN zvol_htable[b] : zvol_htable[b][i] = v
SeqNext(q, v) ==
    LET i == CHOOSE j \in DOMAIN q : q[j] = v
    IN IF i < Len(q) THEN q[i + 1] ELSE NULL
SeqHead(q) == IF q = <<>> THEN NULL ELSE Head(q)
SeqDel(q, v) == SelectSeq(q, LAMBDA x : x # v)
hlist_next(v) == SeqNext(zvol_htable[BucketOf(v)], v)

FndId(f) == <<"find", f>>
RenId == <<"rename", 0>>

\* zvol_find_by_name_hash(name, zvol_name_hash(name), mode):
\* rw_enter(&zvol_state_lock, RW_READER) and the head of the bucket.
zvol_find_by_name_hash(f, name, mode) ==
    /\ ~panic
    /\ fnd[f].pc = "idle"
    /\ IF f = 1 THEN TRUE ELSE fnd[f - 1].pc # "idle"
    /\ zvol_state_lock.w = NoOwner
    /\ LET hash == zvol_name_hash(name)
           head == SeqHead(zvol_htable[ZVOL_HT_HEAD(hash)])
       IN
       IF head = NULL
       THEN \* the bucket is empty: rw_exit(&zvol_state_lock); return (NULL)
            /\ fnd' = [fnd EXCEPT ![f] =
                        [NoFnd EXCEPT !.pc = "returned", !.name = name, !.hash = hash,
                                      !.mode = mode]]
            /\ UNCHANGED zvol_state_lock
       ELSE /\ zvol_state_lock' = [zvol_state_lock EXCEPT !.r = @ \cup {FndId(f)}]
            /\ fnd' = [fnd EXCEPT ![f] =
                        [NoFnd EXCEPT !.pc = "visit", !.name = name, !.hash = hash,
                                      !.mode = mode, !.p = head]]
    /\ UNCHANGED <<cfgVars, lifeVars, volVars, ioVars, userVars, zvols, zvol_htable,
                   zvol_state_list, ren, panic>>

\* One pass of the hlist_for_each body: mutex_enter(&zv->zv_state_lock), the
\* comparison, and on a match rw_tryenter(&zv->zv_suspend_lock, mode).
zvol_find_visit(f) ==
    /\ ~panic
    /\ fnd[f].pc = "visit"
    /\ LET zv == fnd[f].p
           z == zvols[zv]
           nxt == hlist_next(zv)
       IN
       /\ z.zv_state_lock = NoOwner
       /\ IF z.zv_hash = fnd[f].hash /\ strncmp_eq(z.zv_name, fnd[f].name, MAXNAMELEN)
          THEN IF fnd[f].mode = RW_NONE \/ rw_tryenter_ok(z.zv_suspend_lock, fnd[f].mode)
               THEN \* rw_exit(&zvol_state_lock); return (zv)
                    /\ zvols' = [zvols EXCEPT
                         ![zv].zv_state_lock = FndId(f),
                         ![zv].zv_suspend_lock =
                             IF fnd[f].mode = RW_NONE THEN @
                             ELSE rw_entered(@, fnd[f].mode, FndId(f))]
                    /\ zvol_state_lock' = rw_exited(zvol_state_lock, FndId(f))
                    /\ fnd' = [fnd EXCEPT ![f].pc = "returned", ![f].zv = zv]
               ELSE \* mutex_exit(); rw_enter(&zv->zv_suspend_lock, mode) blocks
                    /\ fnd' = [fnd EXCEPT ![f].pc = "blocked"]
                    /\ UNCHANGED <<zvols, zvol_state_lock>>
          ELSE \* mutex_exit(); p = p->next
               IF nxt = NULL
               THEN \* rw_exit(&zvol_state_lock); return (NULL)
                    /\ zvol_state_lock' = rw_exited(zvol_state_lock, FndId(f))
                    /\ fnd' = [fnd EXCEPT ![f].pc = "returned", ![f].p = NULL]
                    /\ UNCHANGED zvols
               ELSE /\ fnd' = [fnd EXCEPT ![f].p = nxt]
                    /\ UNCHANGED <<zvols, zvol_state_lock>>
    /\ UNCHANGED <<cfgVars, lifeVars, volVars, ioVars, userVars, zvol_htable, zvol_state_list,
                   ren, panic>>

\* rw_enter(&zv->zv_suspend_lock, mode) returns.
zvol_find_rw_enter(f) ==
    /\ ~panic
    /\ fnd[f].pc = "blocked"
    /\ rw_tryenter_ok(zvols[fnd[f].p].zv_suspend_lock, fnd[f].mode)
    /\ zvols' = [zvols EXCEPT ![fnd[f].p].zv_suspend_lock =
                    rw_entered(@, fnd[f].mode, FndId(f))]
    /\ fnd' = [fnd EXCEPT ![f].pc = "relock"]
    /\ UNCHANGED <<cfgVars, lifeVars, volVars, ioVars, userVars, zvol_state_lock, zvol_htable,
                   zvol_state_list, ren, panic>>

\* mutex_enter(&zv->zv_state_lock) again, the ASSERT that the volume still
\* has the name looked for (compiled in or not: `debug`),
\* rw_exit(&zvol_state_lock), return (zv).
zvol_find_relock(f, debug) ==
    /\ ~panic
    /\ fnd[f].pc = "relock"
    /\ LET zv == fnd[f].p
           z == zvols[zv]
       IN
       /\ z.zv_state_lock = NoOwner
       /\ IF debug /\ ~(z.zv_hash = fnd[f].hash /\
                        strncmp_eq(z.zv_name, fnd[f].name, MAXNAMELEN))
          THEN /\ panic' = TRUE
               /\ UNCHANGED <<zvols, zvol_state_lock, fnd>>
          ELSE /\ zvols' = [zvols EXCEPT ![zv].zv_state_lock = FndId(f)]
               /\ zvol_state_lock' = rw_exited(zvol_state_lock, FndId(f))
               /\ fnd' = [fnd EXCEPT ![f].pc = "returned", ![f].zv = zv]
               /\ UNCHANGED panic
    /\ UNCHANGED <<cfgVars, lifeVars, volVars, ioVars, userVars, zvol_htable, zvol_state_list,
                   ren>>

\* The caller of zvol_find_by_name_hash() drops the state lock, as
\* zvol_suspend() does: mutex_exit(&zv->zv_state_lock).
zvol_find_caller_unlock(f) ==
    /\ ~panic
    /\ fnd[f].pc = "returned"
    /\ IF fnd[f].zv = NULL
       THEN /\ fnd' = [fnd EXCEPT ![f] = [NoFnd EXCEPT !.pc = "done"]]
            /\ UNCHANGED zvols
       ELSE /\ zvols' = [zvols EXCEPT ![fnd[f].zv].zv_state_lock = NoOwner]
            /\ fnd' = [fnd EXCEPT ![f] =
                        IF fnd[f].mode = RW_NONE THEN [NoFnd EXCEPT !.pc = "done"]
                        ELSE [fnd[f] EXCEPT !.pc = "holding"]]
    /\ UNCHANGED <<cfgVars, lifeVars, volVars, ioVars, userVars, zvol_state_lock, zvol_htable,
                   zvol_state_list, ren, panic>>

\* The caller drops the quiesce lock, as zvol_resume() does:
\* rw_exit(&zv->zv_suspend_lock).
zvol_find_caller_rw_exit(f) ==
    /\ ~panic
    /\ fnd[f].pc = "holding"
    /\ zvols' = [zvols EXCEPT ![fnd[f].zv].zv_suspend_lock = rw_exited(@, FndId(f))]
    /\ fnd' = [fnd EXCEPT ![f] = [NoFnd EXCEPT !.pc = "done"]]
    /\ UNCHANGED <<cfgVars, lifeVars, volVars, ioVars, userVars, zvol_state_lock, zvol_htable,
                   zvol_state_list, ren, panic>>

\* zvol_rename_minors_impl(oldname, newname): rw_enter(&zvol_state_lock, ...)
\* and the head of zvol_state_list.  The new name is not a volume's name.
zvol_rename_minors_impl(oldname, newname) ==
    /\ ~panic
    /\ ren.pc = "idle"
    /\ oldname # newname
    /\ \A v \in Vols : zvols[v].zv_name # newname
    /\ rw_tryenter_ok(zvol_state_lock, zvol_rename_minors_lock)
    /\ zvol_state_lock' = rw_entered(zvol_state_lock, zvol_rename_minors_lock, RenId)
    /\ ren' = [pc |-> "visit", old |-> oldname, new |-> newname,
               p |-> SeqHead(zvol_state_list)]
    /\ UNCHANGED <<cfgVars, lifeVars, volVars, ioVars, userVars, zvols, zvol_htable,
                   zvol_state_list, fnd, panic>>

\* zvol_shutdown_zv() of a zvol_state_t of the registry: dnode_rele(zv->zv_dn),
\* zv->zv_dn = NULL
zvol_shutdown_zv(z) == [z EXCEPT !.zv_dn = FALSE]

\* zvol_last_close(): zvol_shutdown_zv(), dmu_objset_disown(), zv_objset = NULL
zvol_last_close(z) == [zvol_shutdown_zv(z) EXCEPT !.zv_objset = FALSE]

\* zvol_rename_minor(zv, newname) on the zvol_state_t z: zv_hash, then, in
\* volume mode DEV with a character device, destroy_dev() and, if the volume
\* is open, zv_flags &= ~ZVOL_EXCL, zv_open_count = 0, zvol_last_close();
\* make_dev_s() or g_new_providerf() under the new name; strlcpy(zv_name).
zvol_rename_minor(z, hash, newname) ==
    LET z1 == [z EXCEPT !.zv_hash = hash, !.zv_name = newname] IN
    IF z.zso_volmode = ZFS_VOLMODE_DEV /\ z.zso_dev = "zv" /\ z.zv_open_count > 0
    THEN zvol_last_close([z1 EXCEPT !.zv_flags = @ \ {ZVOL_EXCL}, !.zv_open_count = 0])
    ELSE z1

\* One pass of the loop of zvol_rename_minors_impl(): mutex_enter(), the name
\* comparison, zvol_rename_minor() on a match, mutex_exit(); rw_exit() after
\* the last volume.
zvol_rename_minor_visit ==
    /\ ~panic
    /\ ren.pc = "visit"
    /\ IF ren.p = NULL
       THEN /\ zvol_state_lock' = rw_exited(zvol_state_lock, RenId)
            /\ ren' = [NoRen EXCEPT !.pc = "done"]
            /\ UNCHANGED <<zvols, zvol_htable>>
       ELSE LET zv == ren.p
                z == zvols[zv]
                hash == zvol_rename_minor_hash(z.zv_name, ren.new)
            IN
            /\ z.zv_state_lock = NoOwner
            /\ ren' = [ren EXCEPT !.p = SeqNext(zvol_state_list, zv)]
            /\ UNCHANGED zvol_state_lock
            /\ IF z.zv_name = ren.old
               THEN \* zvol_rename_minor(): hlist_del(), hlist_add_head();
                    \* destroy_dev() returns once no thread is in a method
                    \* of the device
                    /\ (z.zso_volmode = ZFS_VOLMODE_DEV /\ z.zso_dev = "zv") =>
                           \A u \in Users : usr[u].pc # "idle" => usr[u].zv # zv
                    /\ zvols' = [zvols EXCEPT ![zv] = zvol_rename_minor(z, hash, ren.new)]
                    /\ zvol_htable' =
                         [b \in DOMAIN zvol_htable |->
                            IF b = ZVOL_HT_HEAD(hash)
                            THEN <<zv>> \o SeqDel(zvol_htable[b], zv)
                            ELSE SeqDel(zvol_htable[b], zv)]
               ELSE UNCHANGED <<zvols, zvol_htable>>
    /\ UNCHANGED <<cfgVars, lifeVars, volVars, ioVars, userVars, zvol_state_list, fnd, panic>>

\* ------------------------------------------ Part V: zvol_log_write()
\* No call of zvol_log_write() is under study.
NoLw == [pc |-> "idle", blocksize |-> zv_volblocksize, max_copied |-> 1,
         offset |-> 0, size |-> 0, sync |-> FALSE, replaying |-> FALSE,
         write_state |-> WR_NEED_COPY, off0 |-> 0, size0 |-> 0, itxs |-> <<>>]

\* zvol_check_volblocksize() lets the powers of two through: ISP2(x) is
\* ((x) & ((x) - 1)) == 0
ISP2(x) == BitAnd(x, x - 1) = 0

\* zvol_replay_write(): the range <<offset, length>> written for a record
\* without data ("If it's a dmu_sync() block, write the whole block"),
\* BP_GET_LSIZE(&lr->lr_blkptr) being `blocksize`
zvol_replay_write(offset, length, blocksize) ==
    IF length < blocksize
    THEN <<offset - (offset % blocksize), blocksize>>
    ELSE <<offset, length>>

\* a read-back failure that leaves the record WR_COPIED
zvol_log_write_itx_state_kept(wr_state, rd_err) == wr_state

\* the wr_state the itx is assigned with: WR_NEED_COPY when
\* dmu_read_by_dnode() failed to read the data of a WR_COPIED record back
zvol_log_write_itx_state(wr_state, rd_err) ==
    IF wr_state = WR_COPIED /\ rd_err THEN WR_NEED_COPY ELSE wr_state

\* the wr_state of one pass: a WR_COPIED record larger than
\* zil_max_copied_data() becomes WR_NEED_COPY
zvol_log_write_wr_state(write_state, size, max_copied) ==
    IF write_state = WR_COPIED /\ size > max_copied THEN WR_NEED_COPY ELSE write_state

\* a WR_INDIRECT record of up to one block from wherever it starts
zvol_log_write_len_unaligned(wr_state, blocksize, offset, size) ==
    IF wr_state = WR_INDIRECT THEN MIN(blocksize, size) ELSE size

\* the length of the record of one pass: all that is left, or for WR_INDIRECT
\* MIN(blocksize - P2PHASE(offset, blocksize), size), P2PHASE(x, align) being
\* x & (align - 1)
zvol_log_write_len(wr_state, blocksize, offset, size) ==
    IF wr_state = WR_INDIRECT
    THEN MIN(blocksize - BitAnd(offset, blocksize - 1), size)
    ELSE size

\* zvol_log_write() up to the loop: zil_replaying() returns at once, otherwise
\* write_state is chosen.
zvol_log_write_entry(replaying) ==
    /\ ~panic
    /\ lw.pc = "entry"
    /\ lw' = IF replaying
             THEN [lw EXCEPT !.pc = "done", !.replaying = TRUE]
             ELSE [lw EXCEPT !.pc = "loop",
                             !.write_state =
                                 zvol_log_write_state(lw.blocksize, lw.size, lw.sync)]
    /\ UNCHANGED <<boot_ncpus, os_sync, zl_logbias, spa_has_slogs, nctx, bios, gq, lifeVars,
                   volVars, ioVars, userVars, regVars, panic>>

\* One pass of `while (size)`: the itx is created, read back into when it is
\* WR_COPIED (`rd_err`: dmu_read_by_dnode() failed), filled in and assigned;
\* offset += len; size -= len.  `inline` is the number of data bytes the itx
\* was created with room for.
zvol_log_write_itx(rd_err) ==
    /\ ~panic
    /\ lw.pc = "loop"
    /\ lw.size # 0
    /\ LET wr_state == zvol_log_write_wr_state(lw.write_state, lw.size, lw.max_copied)
           len == zvol_log_write_len(wr_state, lw.blocksize, lw.offset, lw.size)
           final == zvol_log_write_itx_state(wr_state, rd_err)
           itx == [itx_wr_state |-> final,
                   lr_offset |-> lw.offset,
                   lr_length |-> len,
                   inline |-> IF final = WR_COPIED THEN len ELSE 0,
                   rd_err |-> rd_err,
                   itx_sync |-> lw.sync]
       IN
       /\ rd_err => wr_state = WR_COPIED
       /\ lw' = [lw EXCEPT !.itxs = Append(@, itx),
                           !.offset = U64(lw.offset + len),
                           !.size = U64(lw.size - len)]
    /\ UNCHANGED <<boot_ncpus, os_sync, zl_logbias, spa_has_slogs, nctx, bios, gq, lifeVars,
                   volVars, ioVars, userVars, regVars, panic>>

\* `while (size)` ends.
zvol_log_write_return ==
    /\ ~panic
    /\ lw.pc = "loop"
    /\ lw.size = 0
    /\ lw' = [lw EXCEPT !.pc = "done"]
    /\ UNCHANGED <<boot_ncpus, os_sync, zl_logbias, spa_has_slogs, nctx, bios, gq, lifeVars,
                   volVars, ioVars, userVars, regVars, panic>>

\* ------------------------------------------ Part VI: the GEOM worker
ZVOL_GEOM_UNINIT == "ZVOL_GEOM_UNINIT"
ZVOL_GEOM_STOPPED == "ZVOL_GEOM_STOPPED"
ZVOL_GEOM_RUNNING == "ZVOL_GEOM_RUNNING"

\* The bios of the producers, one producer each.
GeomBios == 1..MaxBios

\* zvol_init() has returned: the queue and the mutex are initialised, the
\* worker thread is created and has not run yet.  wpc, ppc and fpc are where
\* the worker, the producers and zvol_fini() are; mtx is the owner of
\* geom_queue_mtx across steps, "" when free, "destroyed" after mtx_destroy();
\* dispatched are the bios handed to zvol_taskq, in order; trapped tells
\* that a thread has locked the mutex after mtx_destroy().
NoGq == [queue |-> <<>>, state |-> ZVOL_GEOM_UNINIT, mtx |-> "",
         wpc |-> "start", wbp |-> 0, ppc |-> [b \in GeomBios |-> "idle"],
         fpc |-> "idle", dispatched |-> <<>>, trapped |-> FALSE]

\* wakeup_one(&geom_queue): the worker, if it sleeps in msleep(&geom_queue),
\* becomes runnable; PDROP: it returns without the mutex
wakeup_one_geom_queue(g) == IF g.wpc = "sleep" THEN [g EXCEPT !.wpc = "lock"] ELSE g

\* wakeup(&geom_queue_state): zvol_fini(), if it sleeps, becomes runnable and
\* has to take the mutex again
wakeup_geom_queue_state(g) == IF g.fpc = "sleep" THEN [g EXCEPT !.fpc = "woken"] ELSE g

\* a producer that never sees an empty queue
zvol_geom_bio_start_first_never(queue) == FALSE

\* zvol_geom_bio_start(): first = (bioq_first(&geom_queue) == NULL)
zvol_geom_bio_start_first(queue) == queue = <<>>

\* mtx_lock(&geom_queue_mtx) after mtx_destroy(): the thread traps or spins.
mtx_lock_destroyed(g) == [g EXCEPT !.trapped = TRUE]

\* zvol_geom_bio_start() in a thread that cannot sleep, up to the wakeup:
\* mtx_lock, first, bioq_insert_tail, mtx_unlock.  (The ASSERT on
\* geom_queue_state is compiled out of a production kernel.)
zvol_geom_bio_start(b) ==
    /\ ~panic
    /\ gq.ppc[b] = "idle"
    /\ gq.fpc = "idle"
    /\ gq.mtx = ""
    /\ gq' = [gq EXCEPT !.queue = Append(@, b),
                        !.ppc[b] = IF zvol_geom_bio_start_first(gq.queue)
                                   THEN "wakeup" ELSE "done"]
    /\ UNCHANGED <<boot_ncpus, os_sync, zl_logbias, spa_has_slogs, nctx, bios, lw, lifeVars,
                   volVars, ioVars, userVars, regVars, panic>>

\* zvol_geom_bio_start(): if (first) wakeup_one(&geom_queue)
zvol_geom_bio_start_wakeup(b) ==
    /\ ~panic
    /\ gq.ppc[b] = "wakeup"
    /\ gq' = wakeup_one_geom_queue([gq EXCEPT !.ppc[b] = "done"])
    /\ UNCHANGED <<boot_ncpus, os_sync, zl_logbias, spa_has_slogs, nctx, bios, lw, lifeVars,
                   volVars, ioVars, userVars, regVars, panic>>

\* zvol_geom_worker() up to the loop: sched_prio(), then
\* geom_queue_state = ZVOL_GEOM_RUNNING without the mutex.
zvol_geom_worker_start ==
    /\ ~panic
    /\ gq.wpc = "start"
    /\ gq' = [gq EXCEPT !.state = ZVOL_GEOM_RUNNING, !.wpc = "lock"]
    /\ UNCHANGED <<boot_ncpus, os_sync, zl_logbias, spa_has_slogs, nctx, bios, lw, lifeVars,
                   volVars, ioVars, userVars, regVars, panic>>

\* zvol_geom_worker(): one pass of the loop from mtx_lock() to mtx_unlock(),
\* msleep() or kthread_exit().
zvol_geom_worker ==
    /\ ~panic
    /\ gq.wpc = "lock"
    /\ IF gq.mtx = "destroyed"
       THEN gq' = mtx_lock_destroyed([gq EXCEPT !.wpc = "trapped"])
       ELSE /\ gq.mtx = ""
            /\ IF gq.queue # <<>>
               THEN \* bp = bioq_takefirst(&geom_queue); mtx_unlock()
                    gq' = [gq EXCEPT !.queue = Tail(@), !.wbp = Head(gq.queue),
                                     !.wpc = "dispatch"]
               ELSE IF gq.state = ZVOL_GEOM_STOPPED
               THEN \* wakeup(&geom_queue_state); mtx_unlock(); kthread_exit()
                    gq' = wakeup_geom_queue_state(
                              [gq EXCEPT !.state = ZVOL_GEOM_RUNNING, !.wpc = "exited"])
               ELSE \* msleep(&geom_queue, &geom_queue_mtx, PRIBIO | PDROP, ...)
                    gq' = [gq EXCEPT !.wpc = "sleep"]
    /\ UNCHANGED <<boot_ncpus, os_sync, zl_logbias, spa_has_slogs, nctx, bios, lw, lifeVars,
                   volVars, ioVars, userVars, regVars, panic>>

\* zvol_geom_worker(): taskq_dispatch_ent(zvol_taskq, zvol_strategy_task, zvr)
zvol_geom_worker_dispatch ==
    /\ ~panic
    /\ gq.wpc = "dispatch"
    /\ gq' = [gq EXCEPT !.dispatched = Append(@, gq.wbp), !.wbp = 0, !.wpc = "lock"]
    /\ UNCHANGED <<boot_ncpus, os_sync, zl_logbias, spa_has_slogs, nctx, bios, lw, lifeVars,
                   volVars, ioVars, userVars, regVars, panic>>

\* zvol_fini(): mtx_lock(); geom_queue_state = ZVOL_GEOM_STOPPED;
\* wakeup_one(&geom_queue).  No producer is inside zvol_geom_bio_start().
zvol_fini ==
    /\ ~panic
    /\ gq.fpc = "idle"
    /\ \A b \in GeomBios : gq.ppc[b] # "wakeup"
    /\ gq.mtx = ""
    /\ gq' = wakeup_one_geom_queue([gq EXCEPT !.mtx = "zvol_fini",
                                              !.state = ZVOL_GEOM_STOPPED,
                                              !.fpc = "wait"])
    /\ UNCHANGED <<boot_ncpus, os_sync, zl_logbias, spa_has_slogs, nctx, bios, lw, lifeVars,
                   volVars, ioVars, userVars, regVars, panic>>

\* zvol_fini(): while (geom_queue_state != ZVOL_GEOM_RUNNING) msleep(
\* &geom_queue_state, &geom_queue_mtx, ...); mtx_unlock()
zvol_fini_wait ==
    /\ ~panic
    /\ gq.fpc = "wait"
    /\ gq' = IF gq.state # ZVOL_GEOM_RUNNING
             THEN [gq EXCEPT !.mtx = "", !.fpc = "sleep"]
             ELSE [gq EXCEPT !.mtx = "", !.fpc = "destroy"]
    /\ UNCHANGED <<boot_ncpus, os_sync, zl_logbias, spa_has_slogs, nctx, bios, lw, lifeVars,
                   volVars, ioVars, userVars, regVars, panic>>

\* msleep() in zvol_fini() returns: the mutex is taken again
zvol_fini_woken ==
    /\ ~panic
    /\ gq.fpc = "woken"
    /\ gq.mtx = ""
    /\ gq' = [gq EXCEPT !.mtx = "zvol_fini", !.fpc = "wait"]
    /\ UNCHANGED <<boot_ncpus, os_sync, zl_logbias, spa_has_slogs, nctx, bios, lw, lifeVars,
                   volVars, ioVars, userVars, regVars, panic>>

\* zvol_fini(): mtx_destroy(&geom_queue_mtx); zvol_fini_impl()
zvol_fini_destroy ==
    /\ ~panic
    /\ gq.fpc = "destroy"
    /\ gq' = [gq EXCEPT !.mtx = "destroyed", !.fpc = "done"]
    /\ UNCHANGED <<boot_ncpus, os_sync, zl_logbias, spa_has_slogs, nctx, bios, lw, lifeVars,
                   volVars, ioVars, userVars, regVars, panic>>

\* ----------------------------------------------------------- specification
\* The volume, open and idle.
InitIdle ==
    /\ os_sync \in {ZFS_SYNC_STANDARD, ZFS_SYNC_ALWAYS}
    /\ zv_active = 0
    /\ zv_deferred = <<>>
    /\ zv_suspend_ref = 0
    /\ zv_volsize = VolSize
    /\ zv_obj = [b \in 0..(VolSize - 1) |-> 0]
    /\ zv_flags = {}
    /\ zv_open_count = 1
    /\ zv_dn = TRUE
    /\ zv_zilog = FALSE
    /\ zv_suspend_lock = [w |-> "", r |-> {}]
    /\ zv_rangelock = {}
    /\ zds = [c \in Ctx |-> NoZds]
    /\ zil = [itxs |-> {}, inflight |-> {}, opens |-> 0]
    /\ thr = [t \in Thr |-> NoThr]
    /\ susp = "idle"
    /\ fnd = [f \in Finders |-> NoFnd]
    /\ ren = NoRen
    /\ usr = [u \in Users |-> NoUsr]
    /\ rem = NoRem
    /\ zvol_state_lock = [w |-> NoOwner, r |-> {}]
    /\ panic = FALSE

InitVolume == InitIdle /\ lw = NoLw /\ gq = NoGq

\* ... in a pool without log devices, with logbias=latency
InitVol ==
    /\ InitVolume
    /\ zl_logbias = ZFS_LOGBIAS_LATENCY
    /\ spa_has_slogs = FALSE

\* zvol_insert() of volume v named n into registry r: list_insert_head(),
\* hlist_add_head() in the bucket of zvol_name_hash(n).
zvol_insert(r, v, n) ==
    [zvols |-> [r.zvols EXCEPT ![v] =
                   [@ EXCEPT !.zv_name = n, !.zv_hash = zvol_name_hash(n),
                             !.zso_dev = "zv"]],
     htable |-> [r.htable EXCEPT ![ZVOL_HT_HEAD(zvol_name_hash(n))] = <<v>> \o @],
     list |-> <<v>> \o r.list]

\* The registry after the volumes 1..n were inserted under the names nm[1..n].
RECURSIVE Registry(_, _)
Registry(nm, n) ==
    IF n = 0
    THEN [zvols |-> [v \in Vols |-> NoZv],
          htable |-> [b \in 0..(ZVOL_HT_SIZE - 1) |-> <<>>],
          list |-> <<>>]
    ELSE zvol_insert(Registry(nm, n - 1), n, nm[n])

\* The volume of Parts I and II is the only volume; its registration plays no
\* part there.
InitReg1 ==
    LET r == Registry(NameSeq, 1) IN
    /\ zvols = r.zvols
    /\ zvol_htable = r.htable
    /\ zvol_state_list = r.list

\* MaxVols volumes, named by the first names of NameSeq.
InitRegAll ==
    LET r == Registry(NameSeq, MaxVols) IN
    /\ zvols = r.zvols
    /\ zvol_htable = r.htable
    /\ zvol_state_list = r.list

\* A mixed run: reads and writes, up to MaxCpus admission slots.
InitMixed ==
    /\ boot_ncpus \in 1..MaxCpus
    /\ nctx = MaxCtx
    /\ bios = MixedBios

\* A burst run: one bio more than the admission limit admits.
InitBurst ==
    /\ boot_ncpus = MaxCpus + 1
    /\ nctx = MaxCpus + 2
    /\ bios = BurstBios

Init == InitVol /\ InitReg1 /\ (InitMixed \/ InitBurst)

Next ==
    \/ \E c \in Ctx, b \in MixedBios \cup BurstBios \cup QuiesceBios \cup EndBios \cup RoundBios
                      \cup ClipBios :
          zvol_strategy_impl(c, b[1], b[2], b[3])
    \/ \E c \in Ctx : zvol_ensure_zilog_async(c)
    \/ \E c \in Ctx, got, err \in BOOLEAN : zvol_geom_bio_async(c, got, err)
    \/ \E c \in Ctx : zvol_dmu_ctx_init(c)
    \/ \E c \in Ctx : zvol_dmu_ctx_init_wrapper(c)
    \/ \E c \in Ctx, o \in {"ok", "dmu_ctx_init", "dmu_tx_assign"} :
          zvol_dmu_ctx_init_admitted(c, o)
    \/ \E c \in Ctx : zfs_rangelock_grant(c)
    \/ \E c \in Ctx : zvol_dmu_issue(c)
    \/ \E c \in Ctx, rc \in {"0", "EINPROGRESS"} : zvol_strategy_dmu_done(c, rc)
    \/ \E c \in Ctx : zvol_strategy_epilogue(c)

Spec == Init /\ [][Next]_vars

\* A round-trip run: writes and a read of the whole volume, in a pool with or
\* without log devices and either logbias.
InitRound ==
    /\ InitVolume
    /\ InitReg1
    /\ zl_logbias \in {ZFS_LOGBIAS_LATENCY, ZFS_LOGBIAS_THROUGHPUT}
    /\ spa_has_slogs \in BOOLEAN
    /\ boot_ncpus \in 1..MaxCpus
    /\ nctx = MaxCtx
    /\ bios = RoundBios

SpecRound == InitRound /\ [][Next]_vars

\* A run with synchronous operations next to the bios.
InitR ==
    /\ InitVol
    /\ InitReg1
    /\ boot_ncpus \in {QuiesceCpus, MaxCpus}
    /\ nctx = QuiesceCtx
    /\ bios = QuiesceBios

\* A run with synchronous operations and a suspend next to the bios.
InitQ ==
    /\ InitVol
    /\ InitReg1
    /\ boot_ncpus = QuiesceCpus
    /\ nctx = QuiesceCtx
    /\ bios = QuiesceBios

NextR ==
    \/ Next
    \/ \E r \in UserRanges : zvol_cdev_read(r[1], r[2])
    \/ \E r \in UserRanges : zvol_get_data(r[1], r[2])
    \/ \E t \in Thr : zvol_read_exit(t)
    \/ \E r \in UserRanges, io_sync \in BOOLEAN : zvol_cdev_write(r[1], r[2], io_sync)
    \/ \E r \in UserRanges : zvol_cdev_ioctl_delete(r[1], r[2])
    \/ \E t \in Thr : zvol_ensure_zilog(t)
    \/ \E t \in Thr : zvol_ensure_zilog_writer(t)
    \/ \E t \in Thr : zvol_sync_rangelock_enter(t)
    \/ \E t \in Thr : zvol_sync_exit(t)

\* Bios and synchronous operations on a volume that is not suspended.
SpecR == InitR /\ [][NextR]_vars

NextQ ==
    \/ NextR
    \/ zvol_cdev_ioctl_flush
    \/ zvol_suspend
    \/ \E o \in SetupOutcomes : zvol_resume(o)

\* Bios, synchronous operations and one zvol_suspend / zvol_resume.
SpecQ == InitQ /\ [][NextQ]_vars

\* A run at the end of the volume, under sync=always: bios and character
\* device reads and writes that start inside the volume, at its end and past
\* it.
InitEnd ==
    /\ InitVol
    /\ InitReg1
    /\ os_sync = ZFS_SYNC_ALWAYS
    /\ boot_ncpus = MaxCpus
    /\ nctx = MaxCtx
    /\ bios = EndBios

\* zvol_cdev_write() is the only reader of the quiesce lock in such a run, so
\* its rw_tryupgrade() in zvol_ensure_zilog() succeeds.
NextEnd ==
    \/ Next
    \/ \E r \in EndRanges : zvol_cdev_read(r[1], r[2])
    \/ \E r \in EndRanges : zvol_cdev_write(r[1], r[2], FALSE)
    \/ \E t \in Thr : zvol_read_exit(t)
    \/ \E t \in Thr : zvol_ensure_zilog(t)
    \/ \E t \in Thr : zvol_sync_rangelock_enter(t)
    \/ \E t \in Thr : zvol_sync_exit(t)

SpecEnd == InitEnd /\ [][NextEnd]_vars

\* A run of bios and character device reads that reach past the end of the
\* volume.
InitClip ==
    /\ InitVol
    /\ InitReg1
    /\ boot_ncpus \in 1..MaxCpus
    /\ nctx = MaxCtx
    /\ bios = ClipBios

NextClip ==
    \/ Next
    \/ \E r \in ClipRanges : zvol_cdev_read(r[1], r[2])
    \/ \E t \in Thr : zvol_read_exit(t)

SpecClip == InitClip /\ [][NextClip]_vars

\* Requests to free a range: inside the volume, at its end and past it.
DeleteRanges == {<<1, 1>>, <<VolSize, 1>>, <<VolSize + 1, 1>>}

\* A run of reads and writes next to BIO_DELETE and BIO_FLUSH bios and the
\* DIOCGDELETE ioctl.
InitBio ==
    /\ InitVol
    /\ InitReg1
    /\ boot_ncpus = QuiesceCpus
    /\ nctx = QuiesceCtx
    /\ bios = QuiesceBios

NextBio ==
    \/ Next
    \/ \E t \in {BIO_DELETE, BIO_FLUSH}, r \in DeleteRanges : zvol_geom_bio_sync(t, r[1], r[2])
    \/ \E r \in DeleteRanges : zvol_cdev_ioctl_delete(r[1], r[2])
    \/ \E t \in Thr : zvol_ensure_zilog(t)
    \/ \E t \in Thr : zvol_ensure_zilog_writer(t)
    \/ \E t \in Thr : zvol_sync_rangelock_enter(t)
    \/ \E t \in Thr : zvol_sync_exit(t)
    \/ \E assigned \in BOOLEAN : zvol_geom_bio_sync_free(assigned)
    \/ \E t \in Thr, rc \in {"0", "EINPROGRESS"} : zvol_geom_bio_sync_exit(t, rc)
    \/ \E t \in Thr : zvol_commit_done(t)

SpecBio == InitBio /\ [][NextBio]_vars

\* A run of lookups and a rename on the registry; no bio is submitted.
InitFind ==
    /\ InitVol
    /\ InitRegAll
    /\ os_sync = ZFS_SYNC_STANDARD
    /\ boot_ncpus = 1
    /\ nctx = 0
    /\ bios = {}

NextFind ==
    \/ \E f \in Finders, n \in Names, m \in {RW_NONE, RW_READER, RW_WRITER} :
          zvol_find_by_name_hash(f, n, m)
    \/ \E f \in Finders : zvol_find_visit(f)
    \/ \E f \in Finders : zvol_find_rw_enter(f)
    \/ \E f \in Finders, debug \in BOOLEAN : zvol_find_relock(f, debug)
    \/ \E f \in Finders : zvol_find_caller_unlock(f)
    \/ \E f \in Finders : zvol_find_caller_rw_exit(f)
    \/ \E o, n \in Names : zvol_rename_minors_impl(o, n)
    \/ zvol_rename_minor_visit

SpecFind == InitFind /\ [][NextFind]_vars

\* The steps of one accepted context that the taskq, the range lock manager,
\* the DMU and the ZIL take without waiting for the front end.
CtxStep(c) ==
    \/ zvol_ensure_zilog_async(c)
    \/ \E got, err \in BOOLEAN : zvol_geom_bio_async(c, got, err)
    \/ zvol_dmu_ctx_init(c)
    \/ zvol_dmu_ctx_init_wrapper(c)
    \/ \E o \in {"ok", "dmu_ctx_init", "dmu_tx_assign"} : zvol_dmu_ctx_init_admitted(c, o)
    \/ zfs_rangelock_grant(c)
    \/ zvol_dmu_issue(c)
    \/ \E rc \in {"0", "EINPROGRESS"} : zvol_strategy_dmu_done(c, rc)
    \/ zvol_strategy_epilogue(c)

\* Spec with every dispatched task, callback and grant eventually run.
FairSpec == Spec /\ \A c \in Ctx : WF_vars(CtxStep(c))

\* A call of zvol_log_write(zv, tx, offset, size, sync) on the idle volume,
\* for every block size, pool configuration and zil_max_copied_data().
InitLog ==
    /\ InitIdle
    /\ InitReg1
    /\ zl_logbias \in {ZFS_LOGBIAS_LATENCY, ZFS_LOGBIAS_THROUGHPUT}
    /\ spa_has_slogs \in BOOLEAN
    /\ boot_ncpus = 1
    /\ nctx = 0
    /\ bios = {}
    /\ gq = NoGq
    /\ \E blocksize \in 1..MaxBlock, max_copied \in 1..MaxCopied,
          offset \in 0..MaxLogOff, size \in 0..MaxLogSize, sync \in BOOLEAN :
          lw = [NoLw EXCEPT !.pc = "entry", !.blocksize = blocksize,
                            !.max_copied = max_copied, !.offset = offset,
                            !.size = size, !.sync = sync, !.off0 = offset,
                            !.size0 = size]

NextLog ==
    \/ \E replaying \in BOOLEAN : zvol_log_write_entry(replaying)
    \/ \E rd_err \in BOOLEAN : zvol_log_write_itx(rd_err)
    \/ zvol_log_write_return

SpecLog == InitLog /\ [][NextLog]_vars

\* The thread inside zvol_log_write() keeps running.
FairSpecLog == SpecLog /\ WF_vars(NextLog)

\* The module after zvol_init(): the worker and the producers.
InitGeom ==
    /\ InitVol
    /\ InitReg1
    /\ boot_ncpus = 1
    /\ nctx = 0
    /\ bios = {}

\* what a thread that has been scheduled goes on to do
GeomStep ==
    \/ \E b \in GeomBios : zvol_geom_bio_start_wakeup(b)
    \/ zvol_geom_worker_start
    \/ zvol_geom_worker
    \/ zvol_geom_worker_dispatch

NextGeom == GeomStep \/ \E b \in GeomBios : zvol_geom_bio_start(b)

SpecGeom == InitGeom /\ [][NextGeom]_vars

\* SpecGeom with the worker and every producer past its insertion scheduled
\* again and again.
FairSpecGeom ==
    /\ SpecGeom
    /\ \A b \in GeomBios : WF_vars(zvol_geom_bio_start_wakeup(b))
    /\ WF_vars(zvol_geom_worker_start)
    /\ WF_vars(zvol_geom_worker)
    /\ WF_vars(zvol_geom_worker_dispatch)

\* ... and zvol_fini() at module unload.
FiniStep == zvol_fini \/ zvol_fini_wait \/ zvol_fini_woken \/ zvol_fini_destroy

NextFini == NextGeom \/ FiniStep

SpecFini == InitGeom /\ [][NextFini]_vars

FairSpecFini ==
    /\ SpecFini
    /\ \A b \in GeomBios : WF_vars(zvol_geom_bio_start_wakeup(b))
    /\ WF_vars(zvol_geom_worker_start)
    /\ WF_vars(zvol_geom_worker)
    /\ WF_vars(zvol_geom_worker_dispatch)
    /\ WF_vars(zvol_fini)
    /\ WF_vars(zvol_fini_wait)
    /\ WF_vars(zvol_fini_woken)
    /\ WF_vars(zvol_fini_destroy)

\* ------------------------------------------- Part IV: the life of a volume
\* The volume threads 1..MaxUsers are inside a call on; the references the
\* closes in progress on volume v are about to drop.
RECURSIVE ClosingCount(_, _)
ClosingCount(v, n) ==
    IF n = 0 THEN 0
    ELSE ClosingCount(v, n - 1) +
         (IF usr[n].pc # "idle" /\ usr[n].zv = v /\
             usr[n].op \in {"zvol_geom_close", "zvol_cdev_close"}
          THEN usr[n].count ELSE 0)
\* the references GEOM / devfs hold on the device of v and no close has been
\* called for
OpenHandles(v) == zvols[v].zv_open_count - ClosingCount(v, MaxUsers)

IsOpen(op) == op \in {"zvol_geom_open", "zvol_cdev_open"}

\* the threads inside an open, a close, a call that looks a volume up, or a
\* removal; a thread enters a call while fewer than MaxActive are inside one
LifeActive ==
    Cardinality({u \in Users : usr[u].pc # "idle"}) +
    Cardinality({f \in Finders : fnd[f].pc # "idle"}) +
    (IF rem.pc # "idle" THEN 1 ELSE 0)

\* the test before rw_tryenter(&zv->zv_suspend_lock): a first open
\* (zv_open_count == 0), a last close (zv_open_count == 1 in zvol_cdev_close,
\* (zv_open_count - count) == 0 in zvol_geom_close)
zvol_needs_suspend_lock(op, open_count, count) ==
    IF IsOpen(op) THEN open_count = 0
    ELSE IF op = "zvol_cdev_close" THEN open_count = 1
    ELSE open_count - count = 0

\* "check to see if zv_suspend_lock is needed" after the blocking rw_enter():
\* zv_open_count != 0 in the opens, zv_open_count != 1 in both closes
zvol_suspend_lock_unneeded(op, open_count) ==
    IF IsOpen(op) THEN open_count # 0 ELSE open_count # 1

\* a failed rw_tryenter() that keeps zv_state_lock while it blocks
zvol_tryenter_failed_keeps_mutex(who) == who

\* the owner of zv_state_lock when rw_enter(&zv->zv_suspend_lock) is called
\* after a failed rw_tryenter(): mutex_exit(&zv->zv_state_lock) came first
zvol_tryenter_failed(who) == NoOwner

\* Entry of zvol_geom_open/close and zvol_cdev_open/close:
\* rw_enter(&zvol_state_lock, RW_READER); zv = pp->private (dev->si_drv2);
\* ENXIO if it is NULL.  zvol_geom_open() takes spa_namespace_lock here if it
\* reads zv_open_count == 0 (no caller in the model owns that lock); at most
\* MaxOpens references are asked for.
zvol_dev_enter(u, op, v, fwrite, fexcl, count) ==
    /\ ~panic
    /\ usr[u].pc = "idle"
    /\ IF u = 1 THEN TRUE ELSE usr[u - 1].pc # "idle"
    /\ LifeActive < MaxActive
    /\ zvols[v].zso_dev \in {"zv", "NULL"}
    /\ zvol_state_lock.w = NoOwner
    /\ IsOpen(op) => zvols[v].zv_open_count + count <= MaxOpens
    /\ IF zvols[v].zso_dev = "NULL"
       THEN /\ usr' = [usr EXCEPT ![u] = [NoUsr EXCEPT !.err = "ENXIO"]]
            /\ UNCHANGED zvol_state_lock
       ELSE /\ usr' = [usr EXCEPT ![u] =
                        [NoUsr EXCEPT !.pc = "mutex", !.op = op, !.zv = v,
                                      !.fwrite = fwrite, !.fexcl = fexcl,
                                      !.count = count,
                                      !.drop_namespace =
                                          (op = "zvol_geom_open" /\
                                           zvols[v].zv_open_count = 0)]]
            /\ zvol_state_lock' = rw_entered(zvol_state_lock, RW_READER, UsrId(u))
    /\ UNCHANGED <<cfgVars, volVars, ioVars, userVars, zvols, zvol_htable,
                   zvol_state_list, fnd, ren, rem, panic>>

\* zvol_geom_access() with a positive count: zvol_geom_open(pp, flags, count).
\* FEXCL is never passed.
zvol_geom_open(u, v, fwrite, count) ==
    /\ zvols[v].zso_volmode = ZFS_VOLMODE_GEOM
    /\ zvol_dev_enter(u, "zvol_geom_open", v, fwrite, FALSE, count)

\* zvol_cdev_open(dev, flags, ...)
zvol_cdev_open(u, v, fwrite, fexcl) ==
    /\ zvols[v].zso_volmode = ZFS_VOLMODE_DEV
    /\ zvol_dev_enter(u, "zvol_cdev_open", v, fwrite, fexcl, 1)

\* zvol_geom_access() with a negative count: zvol_geom_close(pp, flags, count).
\* `held`: GEOM holds the references it drops; otherwise the provider has
\* no reference left (a spurious close).
zvol_geom_close(u, v, count, held) ==
    /\ zvols[v].zso_volmode = ZFS_VOLMODE_GEOM
    /\ IF held THEN OpenHandles(v) >= count ELSE OpenHandles(v) = 0
    /\ zvol_dev_enter(u, "zvol_geom_close", v, FALSE, FALSE, count)

\* zvol_cdev_close(dev, flags, ...)
zvol_cdev_close(u, v, held) ==
    /\ zvols[v].zso_volmode = ZFS_VOLMODE_DEV
    /\ IF held THEN OpenHandles(v) >= 1 ELSE OpenHandles(v) = 0
    /\ zvol_dev_enter(u, "zvol_cdev_close", v, FALSE, FALSE, 1)

\* mutex_enter(&zv->zv_state_lock); in a close the ZVOL_EXCL flag is cleared
\* and ASSERT(zv->zv_open_count > 0) is made (compiled in or not: `debug`);
\* then rw_tryenter(&zv->zv_suspend_lock, RW_READER) if the lock is needed,
\* and rw_exit(&zvol_state_lock) unless the thread has to block.
zvol_dev_mutex_enter(u, debug) ==
    /\ ~panic
    /\ usr[u].pc = "mutex"
    /\ LET zv == usr[u].zv
           z == zvols[zv]
           op == usr[u].op
           flags == IF IsOpen(op) THEN z.zv_flags ELSE z.zv_flags \ {ZVOL_EXCL}
           need == zvol_needs_suspend_lock(op, z.zv_open_count, usr[u].count)
           got == rw_tryenter_ok(z.zv_suspend_lock, RW_READER)
       IN
       /\ z.zv_state_lock = NoOwner
       /\ IF debug /\ ~IsOpen(op) /\
             ((ZVOL_EXCL \in z.zv_flags /\ z.zv_open_count # 1) \/ z.zv_open_count <= 0)
          THEN /\ panic' = TRUE
               /\ UNCHANGED <<zvols, zvol_state_lock, usr>>
          ELSE /\ UNCHANGED panic
               /\ IF need /\ ~got
                  THEN /\ zvols' = [zvols EXCEPT ![zv] =
                              [z EXCEPT !.zv_flags = flags,
                                        !.zv_state_lock = zvol_tryenter_failed(UsrId(u))]]
                       /\ usr' = [usr EXCEPT ![u].pc = "rw_enter"]
                       /\ UNCHANGED zvol_state_lock
                  ELSE /\ zvols' = [zvols EXCEPT ![zv] =
                              [z EXCEPT !.zv_flags = flags,
                                        !.zv_state_lock = UsrId(u),
                                        !.zv_suspend_lock =
                                            IF need THEN rw_entered(@, RW_READER, UsrId(u))
                                            ELSE @]]
                       /\ usr' = [usr EXCEPT ![u].pc = "locked",
                                             ![u].drop_suspend = need]
                       /\ zvol_state_lock' = rw_exited(zvol_state_lock, UsrId(u))
    /\ UNCHANGED <<cfgVars, volVars, ioVars, userVars, zvol_htable, zvol_state_list,
                   fnd, ren, rem>>

\* rw_enter(&zv->zv_suspend_lock, RW_READER) returns.
zvol_dev_rw_enter(u) ==
    /\ ~panic
    /\ usr[u].pc = "rw_enter"
    /\ rw_tryenter_ok(zvols[usr[u].zv].zv_suspend_lock, RW_READER)
    /\ zvols' = [zvols EXCEPT ![usr[u].zv].zv_suspend_lock =
                    rw_entered(@, RW_READER, UsrId(u))]
    /\ usr' = [usr EXCEPT ![u].pc = "relock"]
    /\ UNCHANGED <<cfgVars, volVars, ioVars, userVars, zvol_state_lock, zvol_htable,
                   zvol_state_list, fnd, ren, rem, panic>>

\* mutex_enter(&zv->zv_state_lock) again, the check whether the quiesce lock
\* is still needed, rw_exit(&zvol_state_lock).
zvol_dev_relock(u) ==
    /\ ~panic
    /\ usr[u].pc = "relock"
    /\ LET zv == usr[u].zv
           z == zvols[zv]
           unneeded == zvol_suspend_lock_unneeded(usr[u].op, z.zv_open_count)
       IN
       /\ z.zv_state_lock = NoOwner
       /\ zvols' = [zvols EXCEPT ![zv] =
              [z EXCEPT !.zv_state_lock = UsrId(u),
                        !.zv_suspend_lock =
                            IF unneeded THEN rw_exited(@, UsrId(u)) ELSE @]]
       /\ usr' = [usr EXCEPT ![u].pc = "locked", ![u].drop_suspend = ~unneeded]
    /\ zvol_state_lock' = rw_exited(zvol_state_lock, UsrId(u))
    /\ UNCHANGED <<cfgVars, volVars, ioVars, userVars, zvol_htable, zvol_state_list,
                   fnd, ren, rem, panic>>

\* what zvol_first_open() can come to: EINTR (spa_namespace_lock is contended
\* and not owned), an error of dmu_objset_own(), an error of zvol_setup_zv(),
\* success with the volume writable or read-only
FirstOpenOutcomes == {"EINTR", "dmu_objset_own", "zvol_setup_zv", "ok", "ok_ro"}

\* an error path that leaves the objset owned
zvol_open_failed_keeps_objset(open_count) == FALSE

\* out_opened / out_open_count: if (zv->zv_open_count == 0) zvol_last_close(zv)
zvol_open_failed_last_close(open_count) == open_count = 0

\* an exclusive open granted next to other opens
zvol_open_excl_busy_never(open_count) == FALSE

\* if (flag & FEXCL) { if (zv->zv_open_count != 0) err = EBUSY; ... }
zvol_open_excl_busy(open_count) == open_count # 0

\* an open that counts itself before its checks
zvol_open_count_add_always(err, open_count, count) == open_count + count

\* zv->zv_open_count += count, reached only if no check failed
zvol_open_count_add(err, open_count, count) ==
    IF err = "0" THEN open_count + count ELSE open_count

\* The rest of zvol_geom_open / zvol_cdev_open, zv_state_lock held:
\* zvol_first_open() if zv_open_count == 0, the EROFS and EBUSY checks,
\* ZVOL_EXCL, zv_open_count += count, the unlocks.  (zsd_sync_cnt and the
\* encryption version check of the GEOM open are not part of the state.)
zvol_open_locked(u, outcome) ==
    /\ ~panic
    /\ usr[u].pc = "locked"
    /\ IsOpen(usr[u].op)
    /\ LET zv == usr[u].zv
           z == zvols[zv]
           first == z.zv_open_count = 0
           first_err == first /\ outcome \notin {"ok", "ok_ro"}
           \* zvol_first_open() and zvol_setup_zv()
           z1 == IF first /\ ~first_err
                 THEN [z EXCEPT !.zv_objset = TRUE,
                                !.zv_dn = TRUE,
                                !.zv_flags = IF outcome = "ok_ro"
                                             THEN (@ \ {ZVOL_WRITTEN_TO}) \cup {ZVOL_RDONLY}
                                             ELSE @ \ {ZVOL_WRITTEN_TO, ZVOL_RDONLY}]
                 ELSE z
           err == IF first_err THEN outcome
                  ELSE IF usr[u].fwrite /\ ZVOL_RDONLY \in z1.zv_flags THEN "EROFS"
                  ELSE IF ZVOL_EXCL \in z1.zv_flags THEN "EBUSY"
                  ELSE IF usr[u].fexcl /\ zvol_open_excl_busy(z1.zv_open_count) THEN "EBUSY"
                  ELSE "0"
           z2 == IF err = "0"
                 THEN [z1 EXCEPT !.zv_flags = IF usr[u].fexcl THEN @ \cup {ZVOL_EXCL} ELSE @,
                                 !.zv_open_count = zvol_open_count_add(err, @, usr[u].count)]
                 ELSE IF ~first_err /\ zvol_open_failed_last_close(z1.zv_open_count)
                 THEN zvol_last_close([z1 EXCEPT !.zv_open_count =
                                          zvol_open_count_add(err, @, usr[u].count)])
                 ELSE [z1 EXCEPT !.zv_open_count =
                                     zvol_open_count_add(err, @, usr[u].count)]
       IN
       /\ first => outcome # "EINTR" \/ ~usr[u].drop_namespace
       /\ ~first => outcome = "ok"
       /\ zvols' = [zvols EXCEPT ![zv] =
              [z2 EXCEPT !.zv_state_lock = NoOwner,
                         !.zv_suspend_lock =
                             IF usr[u].drop_suspend THEN rw_exited(@, UsrId(u)) ELSE @]]
       /\ usr' = [usr EXCEPT ![u] = [NoUsr EXCEPT !.err = err]]
    /\ UNCHANGED <<cfgVars, volVars, ioVars, userVars, zvol_state_lock, zvol_htable,
                   zvol_state_list, fnd, ren, rem, panic>>

\* The rest of zvol_geom_close / zvol_cdev_close, zv_state_lock held:
\* zv_open_count -= count, zvol_last_close() at zero after
\* ASSERT(ZVOL_RW_READ_HELD(&zv->zv_suspend_lock)), the unlocks.
zvol_close_locked(u, debug) ==
    /\ ~panic
    /\ usr[u].pc = "locked"
    /\ ~IsOpen(usr[u].op)
    /\ LET zv == usr[u].zv
           z == zvols[zv]
           cnt == z.zv_open_count - usr[u].count
           z1 == [z EXCEPT !.zv_open_count = cnt]
           z2 == IF cnt = 0 THEN zvol_last_close(z1) ELSE z1
       IN
       IF debug /\ cnt = 0 /\ z.zv_suspend_lock.r = {}
       THEN /\ panic' = TRUE
            /\ UNCHANGED <<zvols, usr>>
       ELSE /\ zvols' = [zvols EXCEPT ![zv] =
                   [z2 EXCEPT !.zv_state_lock = NoOwner,
                              !.zv_suspend_lock =
                                  IF usr[u].drop_suspend THEN rw_exited(@, UsrId(u))
                                  ELSE @]]
            /\ usr' = [usr EXCEPT ![u] = NoUsr]
            /\ UNCHANGED panic
    /\ UNCHANGED <<cfgVars, volVars, ioVars, userVars, zvol_state_lock, zvol_htable,
                   zvol_state_list, fnd, ren, rem>>

\* zvol_suspend(name) after zv = zvol_find_by_name(name, RW_WRITER):
\* return NULL if there is no such volume; else
\* ASSERT(zv_suspend_ref >= 0), atomic_inc(&zv->zv_suspend_ref),
\* zvol_shutdown_zv() if the volume is open, mutex_exit(&zv->zv_state_lock).
zvol_suspend_zv(f, debug) ==
    /\ ~panic
    /\ fnd[f].pc = "returned"
    /\ fnd[f].mode = RW_WRITER
    /\ IF fnd[f].zv = NULL
       THEN /\ fnd' = [fnd EXCEPT ![f] = NoFnd]
            /\ UNCHANGED <<zvols, panic>>
       ELSE IF debug /\ zvols[fnd[f].zv].zv_suspend_ref < 0
       THEN /\ panic' = TRUE
            /\ UNCHANGED <<zvols, fnd>>
       ELSE /\ zvols' = [zvols EXCEPT ![fnd[f].zv] =
                          [(IF @.zv_open_count > 0 THEN zvol_shutdown_zv(@) ELSE @)
                              EXCEPT !.zv_suspend_ref = @ + 1,
                                     !.zv_state_lock = NoOwner]]
            /\ fnd' = [fnd EXCEPT ![f].pc = "suspended",
                                  ![f].shutdown = zvols[fnd[f].zv].zv_open_count > 0]
            /\ UNCHANGED panic
    /\ UNCHANGED <<cfgVars, lifeVars, volVars, ioVars, userVars, zvol_state_lock,
                   zvol_htable, zvol_state_list, ren>>

\* zvol_resume(zv) up to rw_exit(&zv->zv_suspend_lock): mutex_enter(),
\* zvol_setup_zv() if the volume is open (its outcome is the return value),
\* mutex_exit(), rw_exit().
zvol_resume_rw_exit(f, outcome) ==
    /\ ~panic
    /\ fnd[f].pc = "suspended"
    /\ LET zv == fnd[f].zv
           z == zvols[zv]
       IN
       /\ z.zv_state_lock = NoOwner
       /\ z.zv_open_count > 0 \/ outcome = "rw"
       /\ zvols' = [zvols EXCEPT ![zv] =
              [z EXCEPT !.zv_flags =
                            IF z.zv_open_count > 0 /\ outcome = "ro"
                            THEN @ \cup {ZVOL_RDONLY}
                            ELSE IF z.zv_open_count > 0 /\ outcome = "rw"
                            THEN @ \ {ZVOL_RDONLY}
                            ELSE @,
                        !.zv_dn = IF z.zv_open_count > 0 /\ outcome \in {"rw", "ro"}
                                  THEN TRUE ELSE @,
                        !.zv_suspend_lock = rw_exited(@, FndId(f))]]
       /\ fnd' = [fnd EXCEPT ![f].pc = "resumed", ![f].shutdown = FALSE]
    /\ UNCHANGED <<cfgVars, lifeVars, volVars, ioVars, userVars, zvol_state_lock,
                   zvol_htable, zvol_state_list, ren, panic>>

\* a resume that gives back two counts
zvol_resume_dec_twice(ref) == ref - 2

\* atomic_dec(&zv->zv_suspend_ref)
zvol_resume_dec(ref) == ref - 1

\* The end of zvol_resume(): ASSERT(zv_suspend_ref > 0), atomic_dec().
zvol_resume_atomic_dec(f, debug) ==
    /\ ~panic
    /\ fnd[f].pc = "resumed"
    /\ IF debug /\ zvols[fnd[f].zv].zv_suspend_ref <= 0
       THEN /\ panic' = TRUE
            /\ UNCHANGED <<zvols, fnd>>
       ELSE /\ zvols' = [zvols EXCEPT ![fnd[f].zv].zv_suspend_ref = zvol_resume_dec(@)]
            /\ fnd' = [fnd EXCEPT ![f] = NoFnd]
            /\ UNCHANGED panic
    /\ UNCHANGED <<cfgVars, lifeVars, volVars, ioVars, userVars, zvol_state_lock,
                   zvol_htable, zvol_state_list, ren>>

\* zvol_set_volsize(name, volsize) after zv = zvol_find_by_name(name,
\* RW_READER): if the volume is unknown or has no objset, rw_exit() the
\* quiesce lock, dmu_objset_own() (`own_ok`) and zv->zv_objset = os.
zvol_set_volsize_own(f, own_ok) ==
    /\ ~panic
    /\ fnd[f].pc = "returned"
    /\ fnd[f].mode = RW_READER
    /\ IF fnd[f].zv = NULL
       THEN /\ fnd' = [fnd EXCEPT ![f] = NoFnd]
            /\ UNCHANGED zvols
       ELSE LET zv == fnd[f].zv
                z == zvols[zv]
            IN
            IF z.zv_objset
            THEN /\ own_ok
                 /\ fnd' = [fnd EXCEPT ![f].pc = "set_volsize"]
                 /\ UNCHANGED zvols
            ELSE IF own_ok
            THEN /\ zvols' = [zvols EXCEPT ![zv] =
                        [z EXCEPT !.zv_suspend_lock = rw_exited(@, FndId(f)),
                                  !.zv_objset = TRUE]]
                 /\ fnd' = [fnd EXCEPT ![f].pc = "set_volsize_owned"]
            ELSE /\ zvols' = [zvols EXCEPT ![zv] =
                        [z EXCEPT !.zv_suspend_lock = rw_exited(@, FndId(f)),
                                  !.zv_state_lock = NoOwner]]
                 /\ fnd' = [fnd EXCEPT ![f] = NoFnd]
    /\ UNCHANGED <<cfgVars, lifeVars, volVars, ioVars, userVars, zvol_state_lock,
                   zvol_htable, zvol_state_list, ren, panic>>

\* out: of zvol_set_volsize(): if (owned) { dmu_objset_disown();
\* zv->zv_objset = NULL; }
zvol_set_volsize_objset(owned, objset) == IF owned THEN FALSE ELSE objset

\* zvol_set_volsize() from zvol_update_volsize() to its return:
\* the out: label and mutex_exit(&zv->zv_state_lock).
zvol_set_volsize_out(f) ==
    /\ ~panic
    /\ fnd[f].pc \in {"set_volsize", "set_volsize_owned"}
    /\ LET zv == fnd[f].zv
           owned == fnd[f].pc = "set_volsize_owned"
       IN
       zvols' = [zvols EXCEPT ![zv] =
           [@ EXCEPT !.zv_objset = zvol_set_volsize_objset(owned, @),
                     !.zv_suspend_lock = IF owned THEN @ ELSE rw_exited(@, FndId(f)),
                     !.zv_state_lock = NoOwner]]
    /\ fnd' = [fnd EXCEPT ![f] = NoFnd]
    /\ UNCHANGED <<cfgVars, lifeVars, volVars, ioVars, userVars, zvol_state_lock,
                   zvol_htable, zvol_state_list, ren, panic>>

\* What zvol_create_minor_impl() gets from the engine: dmu_objset_own(),
\* dmu_object_info() and zap_lookup() succeed, or one of them fails.
CreateOutcomes == {"ok", "error"}

\* make_dev_s() with MAKEDEV_CHECKNAME returns EEXIST: a character device of
\* that name exists.
make_dev_s_eexist(name) ==
    \E w \in Vols : /\ zvols[w].zv_name = name
                    /\ zvols[w].zso_volmode = ZFS_VOLMODE_DEV
                    /\ zvols[w].zso_dev = "zv"

\* zvol_create_minor_impl(name) after zvol_find_by_name_hash(name, hash,
\* RW_NONE), up to rw_enter(&zvol_state_lock, RW_WRITER): EEXIST if the
\* volume exists; else dmu_objset_own() ... dmu_objset_disown(), between
\* which the zvol_state_t v is set up (kmem_zalloc(), zv_hash, zv_name;
\* zv_objset is NULL again when it is done) and its device is made in the
\* volume mode `volmode`.  The zvol_state_t is the first one that is free.
zvol_create_minor_impl(f, v, volmode, outcome) ==
    /\ ~panic
    /\ fnd[f].pc = "returned"
    /\ fnd[f].mode = RW_NONE
    /\ outcome \in CreateOutcomes
    /\ IF fnd[f].zv # NULL
       THEN \* mutex_exit(&zv->zv_state_lock); return (SET_ERROR(EEXIST))
            /\ v = fnd[f].zv
            /\ volmode = zvols[v].zso_volmode
            /\ outcome = "ok"
            /\ zvols' = [zvols EXCEPT ![v].zv_state_lock = NoOwner]
            /\ fnd' = [fnd EXCEPT ![f] = NoFnd]
       ELSE /\ zvols[v].zso_dev \in {"none", "destroyed"}
            /\ \A w \in Vols : w < v => zvols[w].zso_dev \notin {"none", "destroyed"}
            /\ IF outcome = "error" \/
                  (volmode = ZFS_VOLMODE_DEV /\ make_dev_s_eexist(fnd[f].name))
               THEN \* goto out_doi / out_giant: nothing is inserted
                    /\ fnd' = [fnd EXCEPT ![f] = NoFnd]
                    /\ UNCHANGED zvols
               ELSE /\ zvols' = [zvols EXCEPT ![v] =
                           [NoZv EXCEPT !.zso_volmode = volmode,
                                        !.zv_name = fnd[f].name,
                                        !.zv_hash = fnd[f].hash,
                                        !.zso_dev = "zv"]]
                    /\ fnd' = [fnd EXCEPT ![f].pc = "insert", ![f].zv = v]
    /\ UNCHANGED <<cfgVars, lifeVars, volVars, ioVars, userVars, zvol_state_lock,
                   zvol_htable, zvol_state_list, ren, panic>>

\* The end of zvol_create_minor_impl(): rw_enter(&zvol_state_lock,
\* RW_WRITER), zvol_insert(zv), rw_exit().
zvol_create_minor_insert(f) ==
    /\ ~panic
    /\ fnd[f].pc = "insert"
    /\ rw_tryenter_ok(zvol_state_lock, RW_WRITER)
    /\ fnd' = [fnd EXCEPT ![f] = NoFnd]
    /\ LET r == zvol_insert([zvols |-> zvols, htable |-> zvol_htable,
                             list |-> zvol_state_list],
                            fnd[f].zv, fnd[f].name)
       IN /\ zvols' = r.zvols
          /\ zvol_htable' = r.htable
          /\ zvol_state_list' = r.list
    /\ UNCHANGED <<cfgVars, lifeVars, volVars, ioVars, userVars, zvol_state_lock, ren,
                   panic>>

\* the characters after which a dataset name continues with a child or a
\* snapshot: '/' and '@'
IsNameSep(ch) == ch = 1

\* the volumes zvol_remove_minors_impl(name) is about: every volume if name
\* is NULL (<<>>), the volume named name, its children and snapshots
zvol_remove_minors_match(zv_name, name) ==
    \/ name = <<>>
    \/ zv_name = name
    \/ /\ Len(zv_name) > Len(name)
       /\ SubSeq(zv_name, 1, Len(name)) = name
       /\ IsNameSep(zv_name[Len(name) + 1])

\* "If in use, leave alone"
zvol_remove_in_use(open_count, suspend_ref) == open_count > 0 \/ suspend_ref # 0

\* zvol_clear_private(): pp->private = NULL in GEOM mode, nothing otherwise
zvol_clear_private(volmode, dev) == IF volmode = ZFS_VOLMODE_GEOM THEN "NULL" ELSE dev

\* zvol_remove_minors_impl(name): rw_enter(&zvol_state_lock, RW_WRITER) and
\* the head of zvol_state_list.
zvol_remove_minors_impl(name) ==
    /\ ~panic
    /\ rem.pc = "idle"
    /\ LifeActive < MaxActive
    /\ rw_tryenter_ok(zvol_state_lock, RW_WRITER)
    /\ zvol_state_lock' = rw_entered(zvol_state_lock, RW_WRITER, RemId)
    /\ rem' = [NoRem EXCEPT !.pc = "visit", !.name = name,
                            !.p = SeqHead(zvol_state_list)]
    /\ UNCHANGED <<cfgVars, volVars, ioVars, userVars, zvols, zvol_htable,
                   zvol_state_list, fnd, ren, usr, panic>>

\* One pass of the loop of zvol_remove_minors_impl(): mutex_enter(), the
\* name comparison, "if in use, leave alone", zvol_remove(),
\* zv_clear_private(), mutex_exit(), taskq_dispatch(zv_free) or, if that
\* fails (~dispatched), the free_list; rw_exit() after the last volume.
zvol_remove_minors_visit(dispatched) ==
    /\ ~panic
    /\ rem.pc = "visit"
    /\ IF rem.p = NULL
       THEN /\ dispatched
            /\ zvol_state_lock' = rw_exited(zvol_state_lock, RemId)
            /\ rem' = IF rem.free_list = {} THEN NoRem ELSE [rem EXCEPT !.pc = "free"]
            /\ UNCHANGED <<zvols, zvol_htable, zvol_state_list>>
       ELSE LET zv == rem.p
                z == zvols[zv]
            IN
            /\ z.zv_state_lock = NoOwner
            /\ UNCHANGED zvol_state_lock
            /\ IF zvol_remove_minors_match(z.zv_name, rem.name) /\
                  ~zvol_remove_in_use(z.zv_open_count, z.zv_suspend_ref)
               THEN /\ zvol_state_list' = SeqDel(zvol_state_list, zv)
                    /\ zvol_htable' = [b \in DOMAIN zvol_htable |->
                                          SeqDel(zvol_htable[b], zv)]
                    /\ zvols' = [zvols EXCEPT ![zv] =
                           [z EXCEPT !.zso_dev = zvol_clear_private(z.zso_volmode, @),
                                     !.zv_free = IF dispatched THEN "taskq" ELSE "list"]]
                    /\ rem' = [rem EXCEPT !.p = SeqNext(zvol_state_list, zv),
                                          !.free_list = IF dispatched THEN @
                                                        ELSE @ \cup {zv}]
               ELSE /\ dispatched
                    /\ rem' = [rem EXCEPT !.p = SeqNext(zvol_state_list, zv)]
                    /\ UNCHANGED <<zvols, zvol_htable, zvol_state_list>>
    /\ UNCHANGED <<cfgVars, volVars, ioVars, userVars, fnd, ren, usr, panic>>

\* zvol_free(zv), run by the taskq or, for a volume of the free_list, by
\* zvol_remove_minors_impl() after its rw_exit(): the ASSERTs (compiled in
\* or not: `debug`), rw_destroy(), zvol_geom_destroy() or destroy_dev(),
\* kmem_free().  destroy_dev() returns once no thread is in a method of the
\* device.
zvol_free(v, debug) ==
    /\ ~panic
    /\ \/ zvols[v].zv_free = "taskq"
       \/ zvols[v].zv_free = "list" /\ rem.pc = "free"
    /\ \A u \in Users : usr[u].pc # "idle" => usr[u].zv # v
    /\ IF debug /\ (zvols[v].zv_suspend_lock # [w |-> NoOwner, r |-> {}] \/
                    zvols[v].zv_state_lock # NoOwner \/
                    zvols[v].zv_open_count # 0)
       THEN /\ panic' = TRUE
            /\ UNCHANGED <<zvols, rem>>
       ELSE /\ zvols' = [zvols EXCEPT ![v] =
                   [NoZv EXCEPT !.zso_dev = "destroyed", !.zv_free = "done"]]
            /\ rem' = IF rem.free_list \ {v} = {} /\ rem.pc = "free" THEN NoRem
                      ELSE [rem EXCEPT !.free_list = @ \ {v}]
            /\ UNCHANGED panic
    /\ UNCHANGED <<cfgVars, volVars, ioVars, userVars, zvol_state_lock, zvol_htable,
                   zvol_state_list, fnd, ren, usr>>

\* The name the threads of Part IV use: the name of volume 1.
LifeNames == {NameSeq[1]}

\* One volume is registered and closed; its volume mode is GEOM or DEV.
InitLife ==
    /\ InitVol
    /\ os_sync = ZFS_SYNC_STANDARD
    /\ boot_ncpus = 1
    /\ nctx = 0
    /\ bios = {}
    /\ LET r == Registry(NameSeq, 1) IN
       /\ \E m \in {ZFS_VOLMODE_GEOM, ZFS_VOLMODE_DEV} :
             zvols = [r.zvols EXCEPT ![1].zso_volmode = m]
       /\ zvol_htable = r.htable
       /\ zvol_state_list = r.list

\* The opens and closes; `held`: whether closes are called only for
\* references that are held.
NextDev(held) ==
    \/ \E u \in Users, v \in Vols, fwrite \in BOOLEAN, count \in 1..MaxCount :
          zvol_geom_open(u, v, fwrite, count)
    \/ \E u \in Users, v \in Vols, fwrite, fexcl \in BOOLEAN :
          zvol_cdev_open(u, v, fwrite, fexcl)
    \/ \E u \in Users, v \in Vols, count \in 1..MaxCount, h \in held :
          zvol_geom_close(u, v, count, h)
    \/ \E u \in Users, v \in Vols, h \in held : zvol_cdev_close(u, v, h)
    \/ \E u \in Users, debug \in BOOLEAN : zvol_dev_mutex_enter(u, debug)
    \/ \E u \in Users : zvol_dev_rw_enter(u)
    \/ \E u \in Users : zvol_dev_relock(u)
    \/ \E u \in Users, o \in FirstOpenOutcomes : zvol_open_locked(u, o)
    \/ \E u \in Users, debug \in BOOLEAN : zvol_close_locked(u, debug)

\* The calls that look a volume up by name: suspend / resume, where
\* zvol_setup_zv() comes to one of `outcomes`, and zvol_set_volsize.
NextSuspendWith(outcomes) ==
    \/ \E f \in Finders, n \in LifeNames, m \in {RW_NONE, RW_READER, RW_WRITER} :
          LifeActive < MaxActive /\ zvol_find_by_name_hash(f, n, m)
    \/ \E f \in Finders : zvol_find_visit(f)
    \/ \E f \in Finders : zvol_find_rw_enter(f)
    \/ \E f \in Finders, debug \in BOOLEAN : zvol_find_relock(f, debug)
    \/ \E f \in Finders, debug \in BOOLEAN : zvol_suspend_zv(f, debug)
    \/ \E f \in Finders, o \in outcomes : zvol_resume_rw_exit(f, o)
    \/ \E f \in Finders, debug \in BOOLEAN : zvol_resume_atomic_dec(f, debug)
    \/ \E f \in Finders, ok \in BOOLEAN : zvol_set_volsize_own(f, ok)
    \/ \E f \in Finders : zvol_set_volsize_out(f)

NextSuspend == NextSuspendWith(SetupOutcomes)

\* Minor creation and removal.
NextMinor ==
    \/ \E f \in Finders, v \in 1..LifeVols, m \in {ZFS_VOLMODE_GEOM, ZFS_VOLMODE_DEV},
             o \in CreateOutcomes : zvol_create_minor_impl(f, v, m, o)
    \/ \E f \in Finders : zvol_create_minor_insert(f)
    \/ \E n \in LifeNames : zvol_remove_minors_impl(n)
    \/ \E d \in BOOLEAN : zvol_remove_minors_visit(d)
    \/ \E v \in Vols, debug \in BOOLEAN : zvol_free(v, debug)

NextLife == NextDev({TRUE}) \/ NextSuspend \/ NextMinor

\* Opens, closes, suspend / resume, zvol_set_volsize, minor creation and
\* removal on the volumes of the registry; GEOM and devfs call close only
\* for references they hold.
SpecLife == InitLife /\ [][NextLife]_vars

\* ... with a zvol_resume() whose zvol_setup_zv() succeeds
NextSpurious == NextDev({TRUE, FALSE}) \/ NextSuspendWith({"rw", "ro"})

\* Opens, closes, suspend / resume and zvol_set_volsize, with closes of
\* devices that have no reference left among them.
SpecSpurious == InitLife /\ [][NextSpurious]_vars

\* The names zvol_rename_minors_impl() is called with next to opens and
\* closes: the volume is renamed and renamed back.
RenameNames == {NameSeq[1], NameSeq[3]}

NextRename ==
    \/ NextDev({TRUE})
    \/ \E f \in Finders, n \in LifeNames :
          LifeActive < MaxActive /\ zvol_find_by_name_hash(f, n, RW_WRITER)
    \/ \E f \in Finders : zvol_find_visit(f)
    \/ \E f \in Finders : zvol_find_rw_enter(f)
    \/ \E f \in Finders, debug \in BOOLEAN : zvol_find_relock(f, debug)
    \/ \E f \in Finders, debug \in BOOLEAN : zvol_suspend_zv(f, debug)
    \/ \E f \in Finders, o \in SetupOutcomes : zvol_resume_rw_exit(f, o)
    \/ \E f \in Finders, debug \in BOOLEAN : zvol_resume_atomic_dec(f, debug)
    \/ \E o, n \in RenameNames : zvol_rename_minors_impl(o, n)
    \/ zvol_rename_minor_visit

\* Opens, closes, suspend / resume and renames of one volume.
SpecRename == InitLife /\ [][NextRename]_vars

\* The names zvol_create_minor_impl() and zvol_remove_minors_impl() are
\* called with in a run of creations.
CreateNames == {NameSeq[1], NameSeq[2]}

\* No volume is registered.
InitCreate ==
    /\ InitVol
    /\ os_sync = ZFS_SYNC_STANDARD
    /\ boot_ncpus = 1
    /\ nctx = 0
    /\ bios = {}
    /\ LET r == Registry(NameSeq, 0) IN
       /\ zvols = r.zvols
       /\ zvol_htable = r.htable
       /\ zvol_state_list = r.list

NextCreate ==
    \/ \E f \in Finders, n \in CreateNames : zvol_find_by_name_hash(f, n, RW_NONE)
    \/ \E f \in Finders : zvol_find_visit(f)
    \/ \E f \in Finders, v \in Vols, m \in {ZFS_VOLMODE_GEOM, ZFS_VOLMODE_DEV},
             o \in CreateOutcomes : zvol_create_minor_impl(f, v, m, o)
    \/ \E f \in Finders : zvol_create_minor_insert(f)
    \/ \E n \in CreateNames : zvol_remove_minors_impl(n)
    \/ \E d \in BOOLEAN : zvol_remove_minors_visit(d)
    \/ \E v \in Vols, debug \in BOOLEAN : zvol_free(v, debug)

\* Concurrent zvol_create_minor_impl() and zvol_remove_minors_impl() calls
\* on an empty registry.
SpecCreate == InitCreate /\ [][NextCreate]_vars

\* ------------------------------------------------------------------ claims
\* C1: the number of contexts holding an admission slot is never negative and
\* never above the admission limit boot_ncpus.
C1_ActiveWithinLimit == 0 <= zv_active /\ zv_active <= boot_ncpus

\* C1 witness: every slot is taken, a context waits in the deferred queue and
\* a context has already completed (arrival, deferral and release have acted).
C1_Witness ==
    /\ zv_active = boot_ncpus
    /\ zv_deferred # <<>>
    /\ \E c \in Ctx : zds[c].pc = "done"

C7_Fifo ==
    /\ [](/\ \A c \in Ctx :
                zds[c].pc = "deferred" <=> \E i \in DOMAIN zv_deferred : zv_deferred[i] = c
          /\ \A i, j \in DOMAIN zv_deferred : zv_deferred[i] = zv_deferred[j] => i = j)
    /\ [][\A c \in Ctx :
            /\ (zds[c].pc # "deferred" /\ zds'[c].pc = "deferred") =>
                  zv_deferred' = Append(zv_deferred, c)
            /\ (zds[c].pc = "deferred" /\ zds'[c].pc # "deferred") =>
                  (c = Head(zv_deferred) /\ zv_deferred' = Tail(zv_deferred))]_vars

\* C7 witness: a context has been promoted from the queue while another one,
\* appended behind it, still waits.
C7_Witness ==
    /\ \E c \in Ctx : zds[c].retry /\ zds[c].pc # "deferred"
    /\ zv_deferred # <<>>

C9_CommitBeforeCompletion ==
    [][\A c \in Ctx :
         (/\ zds[c].cmd = BIO_WRITE
          /\ os_sync = ZFS_SYNC_ALWAYS
          /\ zds[c].pc \in {"io", "commit"}
          /\ zds'[c].pc = "done") =>
             (zds[c].logged /\ <<"zds", c>> \notin zil'.itxs \cup zil'.inflight)]_vars

\* C9 witness: a logged write on a sync=always volume waits for its commit.
C9_Witness ==
    \E c \in Ctx :
        /\ zds[c].cmd = BIO_WRITE
        /\ os_sync = ZFS_SYNC_ALWAYS
        /\ zds[c].pc = "commit"
        /\ <<"zds", c>> \in zil.inflight

\* C6: every context that got an admission slot, at once or by promotion,
\* eventually completes.
C6_AcceptedCompletes ==
    \A c \in Ctx :
        (zds[c].pc \in {"admitted", "promoted"}) ~> (zds[c].pc = "done")

\* The operations that are transferring data to or from the backing object,
\* each with the range it transfers and whether it changes the object.
Transfers ==
    {[who |-> <<"zds", c>>, off |-> zds[c].off, len |-> zds[c].io_size,
      write |-> zds[c].cmd # BIO_READ] : c \in {d \in Ctx : zds[d].xfer}}
    \cup
    {[who |-> <<"thr", t>>, off |-> thr[t].off,
      len |-> IF t \in {"zvol_cdev_read", "zvol_cdev_write"}
              THEN MIN(thr[t].len, zv_volsize - thr[t].off) ELSE thr[t].len,
      write |-> t \in {"zvol_cdev_write", "DIOCGDELETE"}] :
        t \in {u \in Thr : thr[u].xfer}}

\* C3: two operations that transfer at the same time on overlapping ranges
\* are both readers; and every operation that transfers holds a granted range
\* lock covering what it transfers, RL_WRITER if it changes the object and
\* RL_READER if it reads it.
C3_RangeExclusion ==
    /\ \A a, b \in Transfers :
          (a.who # b.who /\ Overlap(a.off, a.len, b.off, b.len)) =>
              (~a.write /\ ~b.write)
    /\ \A a \in Transfers :
          \E h \in zv_rangelock :
              /\ h.owner = a.who
              /\ h.mode = (IF a.write THEN RL_WRITER ELSE RL_READER)
              /\ h.off <= a.off
              /\ a.off + a.len <= h.off + h.len

\* C3 witness: a writer and an operation on a disjoint range transfer at the
\* same time while a bio whose range conflicts waits for its range lock.
C3_Witness ==
    /\ \E a, b \in Transfers :
          a.who # b.who /\ a.write /\ ~Overlap(a.off, a.len, b.off, b.len)
    /\ \E c \in Ctx : zds[c].pc = "rl_wait" /\ ~Grantable(ZdsReq(c))

\* zvol_suspend() has returned and the matching zvol_resume() has not.
Suspended == susp = "suspended"

\* C4: while the volume is suspended no bio gets an admission slot (the
\* step before dmu_ctx_init() on the backing object) and no synchronous
\* operation starts its transfer.
C4_NoIoBeginsWhileSuspended ==
    [][Suspended =>
         /\ \A c \in Ctx : zds'[c].pc = "admitted" => zds[c].pc = "admitted"
         /\ \A t \in Thr : thr'[t].pc = "xfer" => thr[t].pc = "xfer"]_vars

\* the positions of a context between admission and completion
InFlight == {"admitted", "promoted", "rl_wait", "issue", "returned", "io", "commit"}

\* C5: when zvol_shutdown_zv() clears zv_dn and zv_zilog in zvol_suspend(), no
\* context holds an admission slot or is between admission and completion.
C5_QuiescedAtShutdown ==
    [][(susp = "idle" /\ susp' = "suspended" /\ zv_dn /\ ~zv_dn') =>
         (zv_active = 0 /\ \A c \in Ctx : zds[c].pc \notin InFlight)]_vars

\* C10: a zvol_find_by_name_hash() that has just returned a volume returned
\* one with the name asked for, holding its state lock, its quiesce lock in the
\* mode asked for and not the registry lock; one that returned NULL holds no
\* lock.
C10_FindReturnsNamedVolume ==
    \A f \in Finders :
        fnd[f].pc = "returned" =>
            /\ FndId(f) \notin zvol_state_lock.r
            /\ IF fnd[f].zv = NULL
               THEN \A v \in Vols :
                       /\ zvols[v].zv_state_lock # FndId(f)
                       /\ zvols[v].zv_suspend_lock.w # FndId(f)
                       /\ FndId(f) \notin zvols[v].zv_suspend_lock.r
               ELSE LET z == zvols[fnd[f].zv] IN
                    /\ z.zv_name = fnd[f].name
                    /\ z.zv_state_lock = FndId(f)
                    /\ fnd[f].mode = RW_WRITER => z.zv_suspend_lock.w = FndId(f)
                    /\ fnd[f].mode = RW_READER => FndId(f) \in z.zv_suspend_lock.r

\* C11: no thread waits in rw_enter(&zv->zv_suspend_lock) while it holds the
\* zv_state_lock of that volume: a lookup, an open or a close whose
\* rw_tryenter() failed has dropped the state lock before it blocks.
C11_NoBlockHoldingStateLock ==
    /\ \A u \in Users :
          usr[u].pc = "rw_enter" => zvols[usr[u].zv].zv_state_lock # UsrId(u)
    /\ \A f \in Finders :
          fnd[f].pc = "blocked" => zvols[fnd[f].p].zv_state_lock # FndId(f)

\* C11 witness: while a volume is suspended, an open or close and a lookup
\* both wait for its quiesce lock.
C11_Witness ==
    \E u \in Users, f \in Finders :
        /\ usr[u].pc = "rw_enter"
        /\ fnd[f].pc = "blocked"
        /\ fnd[f].p = usr[u].zv
        /\ zvols[usr[u].zv].zv_suspend_lock.w # NoOwner

\* the threads between zvol_suspend() and the atomic_dec() of zvol_resume()
\* on volume v
Suspenders(v) ==
    {f \in Finders : fnd[f].pc \in {"suspended", "resumed"} /\ fnd[f].zv = v}

\* C12: a successful zvol_suspend() adds exactly one to zv_suspend_ref and
\* leaves with the quiesce lock held as writer and the state lock released;
\* the lock stays held until the matching zvol_resume(), which first releases
\* it and then takes exactly one from zv_suspend_ref, whatever
\* zvol_setup_zv() returned; in between the volume stays in the registry and
\* is not freed.
C12_SuspendResumePaired ==
    /\ [](\A f \in Finders :
            /\ fnd[f].pc = "suspended" =>
                  /\ zvols[fnd[f].zv].zv_suspend_lock.w = FndId(f)
                  /\ zvols[fnd[f].zv].zv_state_lock # FndId(f)
            /\ fnd[f].pc = "resumed" =>
                  zvols[fnd[f].zv].zv_suspend_lock.w # FndId(f)
            /\ fnd[f].pc \in {"suspended", "resumed"} =>
                  /\ zvols[fnd[f].zv].zv_suspend_ref = Cardinality(Suspenders(fnd[f].zv))
                  /\ \E i \in DOMAIN zvol_state_list : zvol_state_list[i] = fnd[f].zv
                  /\ zvols[fnd[f].zv].zv_free = "none")
    /\ [][\A f \in Finders :
            /\ (fnd[f].pc = "returned" /\ fnd'[f].pc = "suspended") =>
                  zvols'[fnd[f].zv].zv_suspend_ref = zvols[fnd[f].zv].zv_suspend_ref + 1
            /\ (fnd[f].pc = "suspended" /\ fnd'[f].pc # "suspended") =>
                  /\ fnd'[f].pc = "resumed"
                  /\ zvols'[fnd[f].zv].zv_suspend_ref = zvols[fnd[f].zv].zv_suspend_ref
            /\ (fnd[f].pc = "resumed" /\ fnd'[f].pc # "resumed" /\ ~panic') =>
                  zvols'[fnd[f].zv].zv_suspend_ref = zvols[fnd[f].zv].zv_suspend_ref - 1
       ]_vars

\* C12 witness: an open volume has been suspended and its quiesce lock
\* released by zvol_resume(), the count is still held, and
\* zvol_remove_minors_impl() has passed over the volume.
C12_Witness ==
    \E f \in Finders :
        /\ fnd[f].pc = "resumed"
        /\ zvols[fnd[f].zv].zv_open_count > 0
        /\ zvols[fnd[f].zv].zv_suspend_ref = 1
        /\ rem.pc = "visit"
        /\ rem.p = NULL

\* C13: a volume handed to zv_free has left the registry, and from its
\* removal until it is freed its open count and its suspend count are 0: no
\* open and no suspend succeeds on a removed volume.
C13_RemovedStaysUnused ==
    \A v \in Vols :
        zvols[v].zv_free \in {"taskq", "list"} =>
            /\ \A i \in DOMAIN zvol_state_list : zvol_state_list[i] # v
            /\ zvols[v].zv_open_count = 0
            /\ zvols[v].zv_suspend_ref = 0

OpenReturns(u) == usr[u].pc = "locked" /\ IsOpen(usr[u].op) /\ usr'[u].pc = "idle"

\* ZVOL_EXCL is set by an open that finds zv_open_count == 0 and by nothing
\* else; while it is set zv_open_count == 1; it is cleared by a close
ExclSetAndCleared ==
    /\ [](\A v \in Vols : ZVOL_EXCL \in zvols[v].zv_flags => zvols[v].zv_open_count = 1)
    /\ [][\A v \in Vols :
            /\ (ZVOL_EXCL \notin zvols[v].zv_flags /\ ZVOL_EXCL \in zvols'[v].zv_flags) =>
                  /\ zvols[v].zv_open_count = 0
                  /\ \E u \in Users : OpenReturns(u) /\ usr[u].zv = v /\ usr[u].fexcl
            /\ (ZVOL_EXCL \in zvols[v].zv_flags /\ ZVOL_EXCL \notin zvols'[v].zv_flags /\
                 zvols'[v].zv_free # "done") =>
                  \E u \in Users : /\ usr[u].pc = "mutex"
                                   /\ usr[u].zv = v
                                   /\ ~IsOpen(usr[u].op)
                                   /\ usr'[u].pc # "mutex"
       ]_vars

\* C17 as stated: ZVOL_EXCL is set only by an open that finds
\* zv_open_count == 0; while it is set zv_open_count == 1 and every other
\* open fails with EBUSY and leaves zv_open_count alone; a close clears it.
C17_ExclOthersBusy ==
    /\ ExclSetAndCleared
    /\ [][\A u \in Users :
            (OpenReturns(u) /\ ZVOL_EXCL \in zvols[usr[u].zv].zv_flags) =>
                /\ usr'[u].err = "EBUSY"
                /\ zvols'[usr[u].zv].zv_open_count = zvols[usr[u].zv].zv_open_count
       ]_vars

\* C17 amended: as C17, but another open fails with EROFS instead of EBUSY if
\* it asks for write access and the volume is read-only (the ZVOL_RDONLY
\* check comes before the ZVOL_EXCL check).
C17_ExclOthersFail ==
    /\ ExclSetAndCleared
    /\ [][\A u \in Users :
            (OpenReturns(u) /\ ZVOL_EXCL \in zvols[usr[u].zv].zv_flags) =>
                /\ usr'[u].err =
                      (IF usr[u].fwrite /\ ZVOL_RDONLY \in zvols[usr[u].zv].zv_flags
                       THEN "EROFS" ELSE "EBUSY")
                /\ zvols'[usr[u].zv].zv_open_count = zvols[usr[u].zv].zv_open_count
       ]_vars

\* C17 witness: a volume is open exclusively and another open has returned
\* EBUSY.
C17_Witness ==
    \E v \in Vols, u \in Users :
        /\ ZVOL_EXCL \in zvols[v].zv_flags
        /\ zvols[v].zv_open_count = 1
        /\ usr[u].pc = "idle"
        /\ usr[u].err = "EBUSY"

\* thread u holds no lock of the registry or of a volume
HoldsNoLock(u) ==
    /\ UsrId(u) \notin zvol_state_lock.r
    /\ \A v \in Vols : /\ zvols[v].zv_state_lock # UsrId(u)
                       /\ UsrId(u) \notin zvols[v].zv_suspend_lock.r

C19_SpuriousCloseNoOp ==
    /\ [](\A u \in Users : usr[u].pc = "idle" => HoldsNoLock(u))
    /\ [][\A u \in Users :
            (/\ usr[u].pc = "locked"
             /\ ~IsOpen(usr[u].op)
             /\ usr'[u].pc = "idle"
             /\ zvols[usr[u].zv].zv_open_count = 0) =>
                /\ zvols'[usr[u].zv].zv_open_count = 0
                /\ zvols'[usr[u].zv].zv_objset = zvols[usr[u].zv].zv_objset
       ]_vars

\* context c has taken its count of zv_suspend_ref and not given it back
HoldsSuspendRef(c) ==
    zds[c].pc \in {"deferred", "promoted", "admitted", "rl_wait", "issue", "io",
                   "commit", "returned"}

\* C15: every I/O context holds exactly one count of zv_suspend_ref from the
\* moment it is deferred or admitted (whichever way it entered) until it
\* completes or fails, so zv_suspend_ref is the number of contexts in flight
\* plus one for an outstanding suspend, and is 0 when there is neither.
C15_OneSuspendRefPerContext ==
    zv_suspend_ref = Cardinality({c \in Ctx : HoldsSuspendRef(c)})
                        + (IF susp = "suspended" THEN 1 ELSE 0)

\* context c holds a granted range lock
HoldsRangeLock(c) == \E h \in zv_rangelock : h.owner = <<"zds", c>>

\* C16: a range lock granted to an I/O context is released, and only by the
\* context's zvol_dmu_done(); a completed context holds no range lock; and a
\* context that fails before its lock was granted leaves the range locks as
\* they are.
C16_RangeLockReleasedOnce ==
    /\ [](\A c \in Ctx : zds[c].pc = "done" => ~HoldsRangeLock(c))
    /\ [][\A c \in Ctx :
            /\ (HoldsRangeLock(c) /\ ~HoldsRangeLock(c)') =>
                   (zds[c].pc = "io" /\ zds'[c].pc \in {"commit", "done"})
            /\ (zds[c].pc \in {"ctx_init", "promoted", "admitted"}
                    /\ zds'[c].pc = "done") => zv_rangelock' = zv_rangelock
       ]_vars
    /\ \A c \in Ctx : HoldsRangeLock(c) ~> (~HoldsRangeLock(c) \/ panic)

\* C16, the part about the releases that happen: a range lock is released
\* only by its context's zvol_dmu_done(), none is held by a completed
\* context, and a failure before the grant releases none.
C16_NoOtherRelease ==
    /\ [](\A c \in Ctx : zds[c].pc = "done" => ~HoldsRangeLock(c))
    /\ [][\A c \in Ctx :
            /\ (HoldsRangeLock(c) /\ ~HoldsRangeLock(c)') =>
                   (zds[c].pc = "io" /\ zds'[c].pc \in {"commit", "done"})
            /\ (zds[c].pc \in {"ctx_init", "promoted", "admitted"}
                    /\ zds'[c].pc = "done") => zv_rangelock' = zv_rangelock
       ]_vars

\* a request for len > 0 bytes that starts at or beyond the end of the volume
AtOrBeyondEnd(off, len) == len > 0 /\ off >= zv_volsize

\* a request for len > 0 bytes that starts beyond the end of the volume
BeyondEnd(off, len) == len > 0 /\ off > zv_volsize

\* The bios: one that starts at or beyond the end of the volume never holds an
\* admission slot and never transfers; when zvol_dmu_ctx_init() sees it, on
\* arrival or on the retry after it was deferred, the bio is completed with
\* an error and the slot it was handed, if any, goes to the head of the
\* deferred queue or is given back; a read of no bytes is let through.
EndOfVolumeBios ==
    /\ [](\A c \in Ctx :
            /\ zds[c].pc \in {"admitted", "rl_wait", "issue", "io", "commit", "returned"}
                  => ~AtOrBeyondEnd(zds[c].off, zds[c].io_size)
            /\ zds[c].xfer => ~AtOrBeyondEnd(zds[c].off, zds[c].io_size))
    /\ [][\A c \in Ctx :
            (zds[c].pc \in {"ctx_init", "promoted"} /\ zds'[c] # zds[c]) =>
                IF AtOrBeyondEnd(zds[c].off, zds[c].io_size)
                THEN /\ zds'[c].pc = "done"
                     /\ zds'[c].err # "0"
                     /\ zds'[c].done = 1
                     /\ IF zds[c].pc = "ctx_init" THEN zv_active' = zv_active
                        ELSE IF zv_deferred = <<>> THEN zv_active' = zv_active - 1
                        ELSE /\ zv_active' = zv_active
                             /\ zds'[Head(zv_deferred)].pc = "promoted"
                ELSE (zds[c].io_size = 0 /\ zds[c].cmd = BIO_READ) =>
                        zds'[c].pc \in {"admitted", "deferred"}
       ]_vars

\* The character device reads and writes, `Rejected` being the requests the
\* bounds check is to refuse: a refused request returns EIO at once, any
\* other goes on, no request for bytes at or beyond the end transfers, and
\* only a refused request returns EIO.
EndOfVolumeCdev(Rejected(_, _)) ==
    \A t \in {"zvol_cdev_read", "zvol_cdev_write"} :
        /\ thr[t].pc \notin {"idle", "done"} => ~Rejected(thr[t].off, thr[t].len)
        /\ thr[t].xfer => ~AtOrBeyondEnd(thr[t].off, thr[t].len)
        /\ thr[t].err # "0" => Rejected(thr[t].off, thr[t].len)

\* C20, as stated: a bio and a character device request for len > 0 bytes at
\* or beyond the end of the volume is rejected with an error, holds no
\* admission slot and transfers nothing, on arrival and after a deferral; a
\* request for no bytes there is not an error.
C20_AtOrBeyondEndRejected ==
    /\ EndOfVolumeBios
    /\ [](EndOfVolumeCdev(AtOrBeyondEnd))

\* C20, amended: as C20_AtOrBeyondEndRejected for the bios; a character
\* device read or write for len > 0 bytes is rejected with EIO only when it
\* starts beyond the end of the volume, and one that starts exactly at the end
\* returns without an error and without a transfer.
C20_EndOfVolume ==
    /\ EndOfVolumeBios
    /\ [](EndOfVolumeCdev(BeyondEnd))

\* C20 witness: a bio at or beyond the end that was put on the deferred queue
\* has been handed a slot and is about to be rejected by the retry, another
\* bio has been completed with an error, and a character device request at
\* the end of the volume has passed the bounds check while one beyond it has
\* returned EIO.
C20_Witness ==
    /\ \E c \in Ctx : /\ zds[c].pc = "promoted"
                      /\ AtOrBeyondEnd(zds[c].off, zds[c].io_size)
    /\ \E c \in Ctx : zds[c].pc = "done" /\ zds[c].err = "ENXIO"
    /\ \E t \in {"zvol_cdev_read", "zvol_cdev_write"} :
          /\ thr[t].pc = "xfer"
          /\ thr[t].off = zv_volsize
          /\ thr[t].len > 0
    /\ \E t \in {"zvol_cdev_read", "zvol_cdev_write"} : thr[t].err = "EIO"

\* C26: zvol_done() is called at most once for a bio, and exactly once for
\* a bio whose request has been disposed of (its state freed, or the thread
\* that ran it returned), whichever path it took.
C26_CompletedExactlyOnce ==
    /\ \A c \in Ctx : /\ zds[c].done <= 1
                      /\ zds[c].pc = "done" => zds[c].done = 1
    /\ \A t \in {BIO_DELETE, BIO_FLUSH} :
          /\ thr[t].done <= 1
          /\ thr[t].pc = "done" => thr[t].done = 1

\* the request of thread t to free a range neither logs a truncate record nor
\* frees anything, and has not returned without an error
FreesNothing(t) ==
    /\ ~thr[t].xfer
    /\ <<"thr", t>> \notin zil.itxs \cup zil.inflight
    /\ thr[t].pc = "done" => thr[t].err # "0"

\* C21: a BIO_DELETE bio or a DIOCGDELETE ioctl over a range that lies beyond
\* the volume size returns an error, logs no truncate record and frees
\* nothing in the backing object.
C21_FreeBeyondEndRejected ==
    \A t \in {BIO_DELETE, "DIOCGDELETE"} :
        AtOrBeyondEnd(thr[t].off, thr[t].len) => FreesNothing(t)

\* C21 for the ioctl alone.
C21_IoctlBeyondEndRejected ==
    AtOrBeyondEnd(thr["DIOCGDELETE"].off, thr["DIOCGDELETE"].len)
        => FreesNothing("DIOCGDELETE")

\* C22: when zvol_setup_zv() fails during the resume of an open volume, the
\* error is returned to the caller of zvol_resume and the volume is left
\* closed: no dnode is bound and zv_open_count is zero, so that no I/O
\* proceeds against it.
C22_FailedResumeLeavesClosed ==
    susp = "failed" => /\ ~zv_dn
                       /\ zv_open_count = 0

\* C25: every I/O context is granted the range lock over its range before
\* its transaction is opened and assigned: a context that has an assigned
\* transaction holds its range lock, and so does a synchronous write or
\* free that is inside its transaction.
C25_RangeLockBeforeTx ==
    /\ \A c \in Ctx : zds[c].tx => HoldsRangeLock(c)
    /\ \A t \in {"zvol_cdev_write", "DIOCGDELETE", BIO_DELETE} :
          thr[t].xfer => \E h \in zv_rangelock : h.owner = <<"thr", t>>

\* C25 for the synchronous writes and frees alone.
C25_SyncRangeLockBeforeTx ==
    \A t \in {"zvol_cdev_write", "DIOCGDELETE", BIO_DELETE} :
        thr[t].xfer => \E h \in zv_rangelock : h.owner = <<"thr", t>>

\* C30: zvol_ensure_zilog() returns to a caller that holds the quiesce lock
\* as reader, once, with zv_zilog set and ZVOL_WRITTEN_TO set; and whatever
\* the interleaving of zvol_ensure_zilog() and zvol_ensure_zilog_async()
\* callers, zil_open() runs at most once between two zvol_setup_zv().
C30_LazyZilogOnce ==
    /\ [](zil.opens <= 1)
    /\ [][\A t \in Thr :
            (thr[t].pc \in {"ensure", "ensure_writer"} /\ thr'[t].pc = "rangelock") =>
                /\ zv_zilog'
                /\ ZVOL_WRITTEN_TO \in zv_flags'
                /\ zv_suspend_lock'.w = ""
                /\ t \in zv_suspend_lock'.r
       ]_vars

\* C30 witness: a caller that dropped the quiesce lock is about to take it
\* as writer, and the ZIL has been opened by somebody else in the meantime;
\* another caller has returned from zvol_ensure_zilog() as a reader.
C30_Witness ==
    \E t, u \in Thr :
        /\ thr[t].pc = "ensure_writer"
        /\ thr[u].pc \in {"rangelock", "xfer"}
        /\ u \in zv_suspend_lock.r
        /\ zv_zilog
        /\ zil.opens = 1

\* a step in which the acting thread has zvol_state_lock as writer: it holds
\* it, or it is the end of zvol_create_minor_impl(), which takes it, inserts
\* and releases it
WriterStep ==
    /\ zvol_state_lock.r = {}
    /\ \/ zvol_state_lock.w # NoOwner
       \/ \E f \in Finders : fnd[f].pc = "insert" /\ fnd'[f].pc = "idle"

\* C23: the volume list and the hash buckets are changed (insert, remove,
\* re-bucketing by a rename) only by a thread that holds zvol_state_lock as
\* writer; a lookup or traversal in progress holds it at least as reader.
C23_RegistryChangedUnderWriter ==
    /\ [][(zvol_htable' # zvol_htable \/ zvol_state_list' # zvol_state_list) =>
             WriterStep]_vars
    /\ [][(ren.pc = "visit" /\ ren.p # NULL /\ ren'.p # ren.p
                /\ zvols[ren.p].zv_name = ren.old) =>
             zvol_state_lock.w = RenId]_vars
    /\ [](\A f \in Finders :
             fnd[f].pc = "visit" =>
                 (FndId(f) \in zvol_state_lock.r \/ zvol_state_lock.w = FndId(f)))
    /\ [](ren.pc = "visit" =>
             (RenId \in zvol_state_lock.r \/ zvol_state_lock.w = RenId))

\* C23 without the rename: inserts and removals change the registry under
\* the writer lock, and lookups in progress hold the lock.
C23_InsertRemoveUnderWriter ==
    /\ [][(zvol_htable' # zvol_htable \/ zvol_state_list' # zvol_state_list) =>
             WriterStep]_vars
    /\ [](\A f \in Finders :
             fnd[f].pc = "visit" =>
                 (FndId(f) \in zvol_state_lock.r \/ zvol_state_lock.w = FndId(f)))

\* C29: the registry never holds two volumes with the same name, whatever
\* the interleaving of concurrent zvol_create_minor_impl() calls.
C29_NoTwoVolumesOfOneName ==
    \A i, j \in DOMAIN zvol_state_list :
        i # j => zvols[zvol_state_list[i]].zv_name # zvols[zvol_state_list[j]].zv_name

\* C28: every volume of the registry is chained in the bucket of
\* zvol_name_hash(its current name) and its zv_hash is that hash, after any
\* sequence of inserts, removals and renames (so that a lookup of its
\* current name finds it and a lookup of a former name does not).
C28_BucketOfCurrentName ==
    \A i \in DOMAIN zvol_state_list :
        LET v == zvol_state_list[i]
            h == zvol_name_hash(zvols[v].zv_name)
        IN /\ zvols[v].zv_hash = h
           /\ \E k \in DOMAIN zvol_htable[ZVOL_HT_HEAD(h)] :
                 zvol_htable[ZVOL_HT_HEAD(h)][k] = v

\* thread `who` holds the quiesce lock of volume v as reader and its state lock
HoldsQuiesceAndState(who, v) ==
    /\ who \in zvols[v].zv_suspend_lock.r
    /\ zvols[v].zv_state_lock = who

\* a close that brings zv_open_count to zero and runs zvol_last_close()
\* does so holding both locks
CloseTearDownLocked ==
    \A u \in Users :
        (usr[u].pc = "locked" /\ ~IsOpen(usr[u].op) /\ usr'[u].pc = "idle"
             /\ zvols'[usr[u].zv].zv_open_count = 0)
            => HoldsQuiesceAndState(UsrId(u), usr[u].zv)

\* a first open, whose failure is cleaned up by zvol_last_close(), runs
\* holding both locks
OpenCleanupLocked ==
    \A u \in Users :
        (usr[u].pc = "locked" /\ IsOpen(usr[u].op) /\ usr'[u].pc = "idle"
             /\ zvols[usr[u].zv].zv_open_count = 0)
            => HoldsQuiesceAndState(UsrId(u), usr[u].zv)

\* a rename that closes an open character-device volume holds its quiesce
\* lock
RenameTearDownLocked ==
    (ren.pc = "visit" /\ ren.p # NULL /\ ren' # ren
         /\ zvols[ren.p].zv_open_count > 0 /\ zvols'[ren.p].zv_open_count = 0)
        => RenId \in zvols[ren.p].zv_suspend_lock.r

\* C27: zvol_last_close() / zvol_shutdown_zv() run only while the caller
\* holds the volume's quiesce lock as reader together with its state lock:
\* in zvol_geom_close (any count, also after a contended retry), in
\* zvol_cdev_close, in the cleanup of a failed open and in the rename of an
\* open character-device volume.
C27_TearDownUnderQuiesceLock ==
    [][CloseTearDownLocked /\ OpenCleanupLocked /\ RenameTearDownLocked]_vars

\* C27 for the closes alone.
C27_CloseTearDown == [][CloseTearDownLocked]_vars

\* C27 for the opens alone.
C27_OpenCleanup == [][OpenCleanupLocked]_vars

\* C27 for the renames alone.
C27_RenameTearDown == [][RenameTearDownLocked]_vars

\* bio c lies inside the volume
InsideVolume(c) == zds[c].off + zds[c].bio_length <= zv_volsize

\* the blocks of a write whose transfer has run hold the bytes of the bio,
\* all bio_length of them, until its range lock is dropped
WriteLanded ==
    \A c \in Ctx :
        (zds[c].cmd = BIO_WRITE /\ zds[c].xfer /\ InsideVolume(c)) =>
            \A b \in zds[c].off..(zds[c].off + zds[c].bio_length - 1) :
                b \in DOMAIN zv_obj /\ zv_obj[b] = zds[c].bio_data

\* the buffer of a read whose transfer has run holds the bytes of the
\* object, all bio_length of them, until its range lock is dropped
ReadReturnsObject ==
    \A c \in Ctx :
        (zds[c].cmd = BIO_READ /\ zds[c].xfer /\ InsideVolume(c)) =>
            /\ Len(zds[c].buf) = zds[c].bio_length
            /\ \A i \in 1..zds[c].bio_length :
                  zds[c].buf[i] = zv_obj[zds[c].off + i - 1]

\* a block of the object changes only in the transfer of a write that covers
\* it
ObjectKept ==
    \A b \in DOMAIN zv_obj :
        zv_obj'[b] # zv_obj[b] =>
            \E c \in Ctx : /\ zds[c].cmd = BIO_WRITE
                            /\ ~zds[c].xfer /\ zds'[c].xfer
                            /\ zds[c].off <= b /\ b < zds[c].off + zds[c].bio_length
                            /\ zv_obj'[b] = zds[c].bio_data

Truncated(c) == zds[c].pc \in {"rl_wait", "issue", "io", "returned"}

\* the bytes of buffer `buf` are those of the object from `off` on
BufferOfObject(buf, off) ==
    \A i \in DOMAIN buf : off + i - 1 \in DOMAIN zv_obj /\ buf[i] = zv_obj[off + i - 1]

C32_ResumeMatchesSuspend ==
    /\ [](\A f \in Finders :
            fnd[f].pc = "suspended" =>
                (fnd[f].shutdown <=> zvols[fnd[f].zv].zv_open_count > 0))
    /\ [][\A f \in Finders :
            (fnd[f].pc = "suspended" /\ fnd'[f].pc = "resumed") =>
                (fnd[f].shutdown <=> zvols[fnd[f].zv].zv_open_count > 0)]_vars

\* C32 for the opens and closes alone: the count changes during the quiesce
\* period only in steps of zvol_geom_open / zvol_geom_close / zvol_cdev_open /
\* zvol_cdev_close, and then stays above zero or at zero.
C32_OpensAndCloses ==
    [][\A f \in Finders, u \in Users :
         (fnd[f].pc = "suspended" /\ usr[u].pc = "locked" /\ usr'[u].pc = "idle"
              /\ usr[u].zv = fnd[f].zv) =>
             (zvols[fnd[f].zv].zv_open_count > 0 <=> zvols'[fnd[f].zv].zv_open_count > 0)]_vars

\* this step runs zvol_shutdown_zv() on volume v of the registry: in
\* zvol_suspend() on an open volume, in the zvol_last_close() of a close
\* that brings the count to zero, or in that of the rename of an open
\* character-device volume
ShutdownRuns(v) ==
    \/ \E f \in Finders : /\ fnd[f].pc = "returned" /\ fnd'[f].pc = "suspended"
                           /\ fnd[f].zv = v /\ zvols[v].zv_open_count > 0
    \/ \E u \in Users : /\ usr[u].pc = "locked" /\ ~IsOpen(usr[u].op)
                         /\ usr'[u].pc = "idle" /\ usr[u].zv = v
                         /\ zvols[v].zv_open_count > 0 /\ zvols'[v].zv_open_count = 0
    \/ /\ ren.pc = "visit" /\ ren.p = v /\ ren' # ren
       /\ zvols[v].zv_open_count > 0 /\ zvols'[v].zv_open_count = 0

\* zvol_shutdown_zv() is entered with the dnode hold in place
ShutdownOfBoundVolume == \A v \in Vols : ShutdownRuns(v) => zvols[v].zv_dn

\* the zvol_shutdown_zv() of the zvol_suspend() of the volume that does I/O
\* finds the dnode hold in place, and the ZIL open if the volume was written
SuspendOfBoundVolume ==
    (susp = "idle" /\ susp' = "suspended" /\ zv_open_count > 0) =>
        /\ zv_dn
        /\ ZVOL_WRITTEN_TO \in zv_flags => zv_zilog

\* C33: zvol_shutdown_zv() never runs on a volume that is already torn down:
\* at every entry, under any interleaving of suspend, resume, close and
\* rename, zv_dn is held (a successful zvol_setup_zv() came after the last
\* tear-down), and ZVOL_WRITTEN_TO set implies zv_zilog != NULL.
C33_NoDoubleTearDown ==
    [][ShutdownOfBoundVolume /\ SuspendOfBoundVolume]_vars

\* C33 for the volume that does I/O: the assertion of zvol_shutdown_zv().
C33_WrittenImpliesZilog == [][SuspendOfBoundVolume]_vars

\* C33 for the closes alone.
C33_CloseOfBoundVolume ==
    [][\A v \in Vols :
         (\E u \in Users : /\ usr[u].pc = "locked" /\ ~IsOpen(usr[u].op)
                            /\ usr'[u].pc = "idle" /\ usr[u].zv = v
                            /\ zvols[v].zv_open_count > 0 /\ zvols'[v].zv_open_count = 0)
             => zvols[v].zv_dn]_vars

WriteTransferred(c) == zds[c].cmd = BIO_WRITE /\ ~zds[c].xfer /\ zds'[c].xfer

\* C35: every write of the bio pipeline that transfers its data adds a log
\* record for its range in the same step, whatever os_sync is, so that no
\* write is reported complete without a record a later zil_commit() can
\* make durable.
C35_EveryWriteLogged ==
    /\ [][\A c \in Ctx : WriteTransferred(c) =>
            (zds'[c].logged /\ <<"zds", c>> \in zil'.itxs)]_vars
    /\ [](\A c \in Ctx : (zds[c].cmd = BIO_WRITE /\ zds[c].xfer) => zds[c].logged)

\* What the code does: the record is added exactly when zds_sync is set, that
\* is for a write under sync=always.
C35_LoggedWhenSync ==
    [][\A c \in Ctx : WriteTransferred(c) =>
         /\ zds'[c].logged <=> os_sync = ZFS_SYNC_ALWAYS
         /\ <<"zds", c>> \in zil'.itxs <=> os_sync = ZFS_SYNC_ALWAYS]_vars

\* C35 witness: a write of a volume that is not sync=always has transferred
\* its data, waits for its done callback, and has left no log record.
C35_Witness ==
    /\ os_sync # ZFS_SYNC_ALWAYS
    /\ \E c \in Ctx : /\ zds[c].cmd = BIO_WRITE /\ zds[c].pc = "io" /\ zds[c].xfer
                       /\ ~zds[c].logged /\ <<"zds", c>> \notin zil.itxs

\* ---------------------------------------------------------------- C36
\* C36: while ZVOL_RDONLY is set on the volume, no step changes the backing
\* object: not a write of the bio pipeline, not a BIO_DELETE, not a cdev
\* write, not a DIOCGDELETE, and not one begun through a handle that was
\* opened before zvol_resume() set the flag.
C36_ReadOnlyObjectKept ==
    [][(ZVOL_RDONLY \in zv_flags) => (zv_obj' = zv_obj)]_vars

\* C36 for the bio pipeline alone: no context changes the object of a
\* read-only volume.
C36_ReadOnlyBioKept ==
    [][(ZVOL_RDONLY \in zv_flags /\ zds' # zds) => (zv_obj' = zv_obj)]_vars

\* ---------------------------------------------------------------- C37
\* A pass of the loop of zvol_log_write() runs in this step.
LogPass == lw.pc = "loop" /\ lw'.pc = "loop" /\ lw' # lw

\* The record the pass of this step has assigned.
LogRecord == lw'.itxs[Len(lw'.itxs)]

\* C37: every pass of the loop assigns one record, which starts at the offset
\* the pass began with; when dmu_read_by_dnode() failed, or the write state
\* is WR_COPIED and what is left exceeds zil_max_copied_data(), the record is
\* WR_NEED_COPY and carries no data; a record carries either all of its
\* data (WR_COPIED) or none.
C37_FallBackToReference ==
    [][LogPass =>
         /\ lw.size # 0
         /\ Len(lw'.itxs) = Len(lw.itxs) + 1
         /\ LogRecord.lr_offset = lw.offset
         /\ LogRecord.lr_length >= 1
         /\ (LogRecord.rd_err \/ (lw.write_state = WR_COPIED /\ lw.size > lw.max_copied))
               => (LogRecord.itx_wr_state = WR_NEED_COPY /\ LogRecord.inline = 0)
         /\ LogRecord.inline = IF LogRecord.itx_wr_state = WR_COPIED
                               THEN LogRecord.lr_length ELSE 0]_vars

\* C37 witness: zvol_log_write() has returned after a record whose data
\* could not be read back was assigned as WR_NEED_COPY.
C37_Witness ==
    /\ lw.pc = "done"
    /\ \E i \in DOMAIN lw.itxs : /\ lw.itxs[i].rd_err
                                  /\ lw.itxs[i].itx_wr_state = WR_NEED_COPY
                                  /\ lw.itxs[i].inline = 0

\* ---------------------------------------------------------------- C38
\* The records r tile [off, off + size): the first starts at off, each next
\* one where its predecessor ends, the last ends at off + size, and none is
\* empty.
Tiles(r, off, size) ==
    /\ (size = 0) <=> (r = <<>>)
    /\ \A i \in DOMAIN r : r[i].lr_length >= 1
    /\ r # <<>> =>
          /\ r[1].lr_offset = off
          /\ r[Len(r)].lr_offset + r[Len(r)].lr_length = off + size
          /\ \A i \in 1..(Len(r) - 1) :
                r[i + 1].lr_offset = r[i].lr_offset + r[i].lr_length

\* The range <<offset, length>> lies in one block of `blocksize` bytes.
InOneBlock(rng, blocksize) ==
    /\ rng[2] >= 1
    /\ rng[1] \div blocksize = (rng[1] + rng[2] - 1) \div blocksize

\* C38: when zvol_log_write() returns without replaying, its records tile
\* [offset, offset + size); every pass of the loop makes `size` smaller, and
\* the loop ends, for every size and every block size from 1 on; on a volume
\* whose block size is a power of two every WR_INDIRECT record lies in one
\* block, and the range zvol_replay_write() writes for it covers the record
\* and is that one block at most.
C38_TilesTheRange ==
    /\ []((lw.pc = "done" /\ ~lw.replaying) => Tiles(lw.itxs, lw.off0, lw.size0))
    /\ [](\A i \in DOMAIN lw.itxs :
             (lw.itxs[i].itx_wr_state = WR_INDIRECT /\ ISP2(lw.blocksize)) =>
                LET r == lw.itxs[i]
                    w == zvol_replay_write(r.lr_offset, r.lr_length, lw.blocksize)
                IN /\ InOneBlock(<<r.lr_offset, r.lr_length>>, lw.blocksize)
                   /\ InOneBlock(w, lw.blocksize)
                   /\ w[1] <= r.lr_offset
                   /\ r.lr_offset + r.lr_length <= w[1] + w[2])
    /\ [][LogPass => lw'.size < lw.size]_vars
    /\ <>(lw.pc = "done")

\* C38 witness: a write that starts inside a block has been logged as three
\* WR_INDIRECT records, the first one shorter than a block.
C38_Witness ==
    /\ lw.pc = "done"
    /\ Len(lw.itxs) >= 3
    /\ lw.itxs[1].itx_wr_state = WR_INDIRECT
    /\ lw.blocksize > 1
    /\ lw.itxs[1].lr_length < lw.blocksize

\* ---------------------------------------------------------------- C39
\* Bio b is in the sequence q.
InSeq(b, q) == \E i \in DOMAIN q : q[i] = b

C40_ShutdownHandshake ==
    /\ [](gq.mtx = "destroyed" => gq.wpc = "exited")
    /\ [](~gq.trapped)
    /\ [](gq.fpc = "done" =>
            \A b \in GeomBios : gq.ppc[b] # "idle" => InSeq(b, gq.dispatched))
    /\ (gq.fpc # "idle") ~> (gq.fpc = "done")

\* The safety half of C40.
C40_DestroyedAfterExit == gq.mtx = "destroyed" => gq.wpc = "exited"

\* The handshake in the runs where the worker has made its first assignment
\* before zvol_fini() begins.
C40_WorkerStartedFirst ==
    [](gq.fpc # "idle" => gq.wpc # "start") => C40_ShutdownHandshake

\* C40 witness: zvol_fini() has set ZVOL_GEOM_STOPPED and sleeps, the worker
\* has since overwritten the state and sleeps as well.
C40_Witness ==
    /\ gq.fpc = "sleep"
    /\ gq.wpc = "sleep"
    /\ gq.state = ZVOL_GEOM_RUNNING

====
